---- MODULE Spec2Model ----
(***************************************************************************)
(* Overlord API: Service Directory (InMemoryRegistryRepository + Service), *)
(* Health Monitor (HealthService), Gateway (GatewayService).               *)
(*                                                                         *)
(* Scheduling.  The program is one Node.js process.  Every method of       *)
(* InMemoryRegistryRepository finishes synchronously and returns an        *)
(* already-resolved promise, so "await repository.x()" resumes in the same *)
(* microtask drain, before any other I/O callback runs.  The points where  *)
(* another request's code can run are the awaits on real I/O: fetch(), the *)
(* read of a response body (response.json() / response.text()).  Each      *)
(* action below is one such run-to-completion segment of the source.       *)
(*                                                                         *)
(* Objects.  The repository stores references to Service objects, and a    *)
(* caller that has looked an entry up keeps mutating and saving that very  *)
(* object.  heap models the objects, services the Map (insertion order).   *)
(*                                                                         *)
(* Time.  now is Date.now() in milliseconds.  An armed setTimeout is       *)
(* urgent: time does not pass beyond its deadline before it has fired.     *)
(***************************************************************************)
EXTENDS Integers, Sequences, FiniteSets, Bags, TLC

VARIABLES
    now,        \* Date.now()
    ticks,      \* how often time has advanced
    services,   \* InMemoryRegistryRepository.services: Map in insertion order
    heap,       \* the Service objects, by reference
    calls,      \* outbound fetch calls in flight (health probes, proxy calls): a bag
    sweeps,     \* checkAllServices invocations in flight
    bcasts,     \* broadcast invocations in flight
    returned,   \* what the operation that completed last gave its caller
    agg,        \* input/output of the overall-status derivation (SpecAgg)
    limits,     \* the bounds of the run: fixed by Init, never changed
    workflow,   \* the Workflow entity (SpecWorkflow)
    recentEvents, \* EventService.recentEvents, newest first
    log,        \* every event emitted so far, oldest first (history)
    handlers,   \* EventService.handlers: per event type, the Set's entries in order
    allHandlers, \* EventService.allHandlers: the Set's entries in order
    emits,      \* emit invocations in flight
    timer       \* HealthService.healthCheckInterval: the periodic check

\* the state of the EventService
evs == <<recentEvents, log, handlers, allHandlers, emits>>

vars == <<now, ticks, services, heap, calls, sweeps, bcasts, returned, agg, limits,
          workflow,
          recentEvents, log, handlers, allHandlers, emits, timer>>

-----------------------------------------------------------------------------
(* Bounds of the model *)

MaxTicks == 1
MaxObjs == 3
MaxCalls == 2
MaxSweeps == 2
MaxBcasts == 1
MaxCount == 3
MaxInFlight == 2
MaxEmits == 3
MaxHistory == 150
MaxEntries == 3
MaxHeard == 1
MaxCycles == 3
MaxNameLen == 4

\* steps of a workflow
MaxSteps == 3

(* Program constants *)

HEALTH_CHECK_INTERVAL_MS == 30000
HEALTH_CHECK_TIMEOUT_MS == 5000
COMMAND_TIMEOUT_MS == 30000

TickMs == 30000

-----------------------------------------------------------------------------
(* Small helpers *)

Min(S) == CHOOSE x \in S : \A y \in S : x <= y

Range(s) == {s[i] : i \in 1..Len(s)}

RECURSIVE SelectSeqBy(_, _)
SelectSeqBy(s, keep) ==
    IF s = <<>> THEN <<>>
    ELSE IF Head(s) \in keep THEN <<Head(s)>> \o SelectSeqBy(Tail(s), keep)
         ELSE SelectSeqBy(Tail(s), keep)

-----------------------------------------------------------------------------
(* ServiceStatus, ServiceType *)

ServiceStatus == {"healthy", "unhealthy", "degraded", "unknown", "starting", "stopping"}

ServiceType == {"agent", "web_app", "mobile_app", "api"}

-----------------------------------------------------------------------------
(* RegistryService.generateServiceId: names are sequences of characters *)

LowerOf(ch) ==
    CASE ch = "A" -> "a"
      [] ch = "B" -> "b"
      [] OTHER -> ch

toLowerCase(name) == [i \in 1..Len(name) |-> LowerOf(name[i])]

\* .replace(/[^a-z0-9]+/g, '-'): every maximal run becomes one dash
RECURSIVE collapseRuns(_)
collapseRuns(s) ==
    IF s = <<>> THEN <<>>
    ELSE IF Head(s) \in {"a", "b", "1"} THEN <<Head(s)>> \o collapseRuns(Tail(s))
    ELSE IF Len(s) > 1 /\ s[2] \notin {"a", "b", "1"} THEN collapseRuns(Tail(s))
    ELSE <<"-">> \o collapseRuns(Tail(s))

\* a trim that would leave the dash at the end
stripLeadingDash(s) == IF s # <<>> /\ Head(s) = "-" THEN Tail(s) ELSE s

\* .replace(/^-|-$/g, ''): one dash at the start, one dash at the end
stripEdgeDashes(s) ==
    LET a == IF s # <<>> /\ Head(s) = "-" THEN Tail(s) ELSE s
    IN  IF a # <<>> /\ a[Len(a)] = "-" THEN SubSeq(a, 1, Len(a) - 1) ELSE a

generateServiceId(name) == stripEdgeDashes(collapseRuns(toLowerCase(name)))

-----------------------------------------------------------------------------
(* Registration requests (RegisterServiceRequest).  healthEndpoint "" and  *)
(* version "" stand for an absent field.  A base address is its text, its  *)
(* trailing slash, and whether new URL(text) accepts it.                   *)

Url(text, slash, valid) == [text |-> text, slash |-> slash, valid |-> valid]

Requests ==
    { [name |-> <<"a">>, type |-> "agent", baseUrl |-> Url("http://a", TRUE, TRUE),
       healthEndpoint |-> "", capabilities |-> {}, metadata |-> {}, version |-> ""],
      [name |-> <<"A", "!", " ">>, type |-> "api", baseUrl |-> Url("http://a2", FALSE, TRUE),
       healthEndpoint |-> "/hz", capabilities |-> {"chat"}, metadata |-> {"m"}, version |-> "2.0"],
      [name |-> <<"b">>, type |-> "agent", baseUrl |-> Url("http://b", FALSE, TRUE),
       healthEndpoint |-> "", capabilities |-> {}, metadata |-> {}, version |-> ""],
      [name |-> <<" ", "!">>, type |-> "agent", baseUrl |-> Url("http://c", FALSE, TRUE),
       healthEndpoint |-> "", capabilities |-> {}, metadata |-> {}, version |-> ""],
      [name |-> <<"b">>, type |-> "api", baseUrl |-> Url("b", FALSE, FALSE),
       healthEndpoint |-> "", capabilities |-> {}, metadata |-> {}, version |-> ""] }

-----------------------------------------------------------------------------
(* HealthCheckResult *)

NoDetails == [httpStatus |-> 0, error |-> "", body |-> ""]

HealthCheckResult(status, timestamp, responseTimeMs, details) ==
    [status |-> status, timestamp |-> timestamp,
     responseTimeMs |-> responseTimeMs, details |-> details]

\* the entry has no cached result (_lastHealthCheck is undefined)
NoResult == [status |-> "none", timestamp |-> 0, responseTimeMs |-> 0, details |-> NoDetails]

-----------------------------------------------------------------------------
(* Service entity *)

Refs == 1..MaxObjs

FreeObj == [alloc |-> FALSE]

\* Guard.stringNotEmpty: !value || value.trim().length === 0
stringNotEmpty(s) == \E i \in 1..Len(s) : s[i] # " "

\* a constructor that does not guard the base address
ServiceValidAnyUrl(id, req) ==
    /\ stringNotEmpty(id)
    /\ stringNotEmpty(req.name)
    /\ req.type \in ServiceType

\* the guards of the Service constructor
ServiceValid(id, req) ==
    /\ stringNotEmpty(id)
    /\ stringNotEmpty(req.name)
    /\ req.type \in ServiceType
    /\ req.baseUrl.valid

\* new Service(props): status STARTING, no cached result, both dates new Date()
Service(id, req, t) ==
    [alloc |-> TRUE,
     id |-> id,
     name |-> req.name,
     type |-> req.type,
     baseUrl |-> [req.baseUrl EXCEPT !.slash = FALSE],
     healthEndpoint |-> IF req.healthEndpoint = "" THEN "/health" ELSE req.healthEndpoint,
     capabilities |-> req.capabilities,
     metadata |-> req.metadata,
     version |-> IF req.version = "" THEN "1.0.0" ELSE req.version,
     registeredAt |-> t,
     status |-> "starting",
     lastHealthCheck |-> NoResult,
     lastSeenAt |-> t]

\* an update that would merge the status in and keep the cached result
updateStatusOnly(svc, result, t) == [svc EXCEPT !.status = result.status, !.lastSeenAt = t]

\* an update that would cache the result and leave the status as it was
updateResultOnly(svc, result, t) ==
    [svc EXCEPT !.lastHealthCheck = result, !.lastSeenAt = t]

updateHealthStatus(svc, result, t) ==
    [svc EXCEPT !.lastHealthCheck = result, !.status = result.status, !.lastSeenAt = t]

\* a touch that would take the entry back to its registration
touchBackdated(svc, t) == [svc EXCEPT !.lastSeenAt = svc.registeredAt]

\* a touch that would restart the entry's registration date
touchAndRedate(svc, t) == [svc EXCEPT !.lastSeenAt = t, !.registeredAt = t]

touch(svc, t) == [svc EXCEPT !.lastSeenAt = t]

\* a gate that would also let a service through before its first check
isAvailableOrStarting(svc) == svc.status \in {"healthy", "degraded", "starting"}

isAvailable(svc) == svc.status = "healthy" \/ svc.status = "degraded"

toSnapshot(svc) == svc

-----------------------------------------------------------------------------
(* InMemoryRegistryRepository: a Map from id to object reference, kept as  *)
(* the sequence of its entries in insertion order.                         *)

Entry(id, ref) == [id |-> id, ref |-> ref]

has(m, id) == \E i \in 1..Len(m) : m[i].id = id

\* findById: the reference stored under id, 0 for null
findById(m, id) ==
    IF has(m, id) THEN (CHOOSE e \in Range(m) : e.id = id).ref ELSE 0

\* Map.set: an existing key keeps its place, a new key goes last
save(m, id, ref) ==
    IF has(m, id)
    THEN [i \in 1..Len(m) |-> IF m[i].id = id THEN Entry(id, ref) ELSE m[i]]
    ELSE Append(m, Entry(id, ref))

delete(m, id) == SelectSeqBy(m, {e \in Range(m) : e.id # id})

findAll(m) == [i \in 1..Len(m) |-> m[i].ref]

\* a lookup that would ignore the type
findByAnyType(m, h, type) == [i \in 1..Len(m) |-> m[i].ref]

findByType(m, h, type) ==
    LET keep == {e \in Range(m) : h[e.ref].type = type}
        kept == SelectSeqBy(m, keep)
    IN  [i \in 1..Len(kept) |-> kept[i].ref]

-----------------------------------------------------------------------------
(* Outbound calls in flight.  phase "fetch": awaiting fetch(), the abort   *)
(* timer is armed; phase "body": fetch() has resolved, clearTimeout has    *)
(* run, the body read (response.json() / response.text()) is awaited.      *)

Parent(op, ix) == [op |-> op, ix |-> ix]

\* timeout is request.timeout of a proxy request (0: none given), and 0 for
\* a health probe; wait is the delay the abort timer is set to
Call(kind, sid, ref, start, timeout, wait, parent) ==
    [kind |-> kind, sid |-> sid, ref |-> ref, timeout |-> timeout,
     start |-> start, deadline |-> start + wait,
     phase |-> "fetch", code |-> 0, responseTimeMs |-> 0,
     parent |-> parent]

\* how many more calls the model lets be in flight
room(cs) == limits.calls - BagCardinality(cs)

issue(cs, call) == cs (+) SetToBag({call})

settle(cs, call) == cs (-) SetToBag({call})

FreeRefs == {r \in Refs : ~heap[r].alloc}

\* References are names: renaming them changes nothing the program can
\* observe.  Every state is kept under one fixed renaming of its references.
renamed(p, h, m, cs) ==
    LET q == [r \in Refs |-> CHOOSE x \in Refs : p[x] = r]
    IN  <<[r \in Refs |-> h[q[r]]],
          [i \in 1..Len(m) |-> Entry(m[i].id, p[m[i].ref])],
          [x \in {[c EXCEPT !.ref = p[c.ref]] : c \in BagToSet(cs)} |->
              cs[[x EXCEPT !.ref = q[x.ref]]]]>>

canonical(h, m, cs) ==
    CHOOSE t \in {renamed(p, h, m, cs) : p \in Permutations(Refs)} : TRUE

\* the new heap (unreachable objects dropped), Map and calls of a step
commit(h, m, cs) ==
    LET \* objects still reachable: stored in the Map or held by a suspended call
        referenced == {e.ref : e \in Range(m)} \cup {c.ref : c \in BagToSet(cs)}
        kept == [r \in Refs |-> IF r \in referenced THEN h[r] ELSE FreeObj]
        t == canonical(kept, m, cs)
    IN  heap' = t[1] /\ services' = t[2] /\ calls' = t[3]

\* status codes a target answers with: one of each class, and the codes on
\* either side of the limits the code compares with
Codes == {200, 404, 500}

NoBody == [from |-> <<>>, status |-> 0]

-----------------------------------------------------------------------------
(* What an operation gave its caller *)

\* arg: what the call was given and what its target did (kind: "response",
\* "network", "timeout", "body failed"; code: the status answered)
NoArg ==
    [kind |-> "", code |-> 0, timeout |-> 0, name |-> <<>>, type |-> "",
     keys |-> <<>>, probes |-> <<>>, limit |-> 0]

Probe(kind, code) == [NoArg EXCEPT !.kind = kind, !.code = code]

Returned(op, sid, arg, error, value) ==
    [op |-> op, sid |-> sid, arg |-> arg, error |-> error, value |-> value]

Nothing == Returned("none", <<>>, NoArg, "", 0)

-----------------------------------------------------------------------------
(* HealthService: classification of a probe that got a response            *)

\* Response.ok of the fetch API
ok(code) == code >= 200 /\ code <= 299

\* a classification that would not commit itself on a client-side answer
statusOfResponseUnknown(code) ==
    IF ok(code) THEN "healthy"
    ELSE IF code >= 500 THEN "unhealthy"
    ELSE "unknown"

\* a classification that would take 500 itself for a client-side answer
statusOfResponseAbove500(code) ==
    IF ok(code) THEN "healthy"
    ELSE IF code > 500 THEN "unhealthy"
    ELSE "degraded"

statusOfResponse(code) ==
    IF ok(code) THEN "healthy"
    ELSE IF code >= 500 THEN "unhealthy"
    ELSE "degraded"

detailsOfResponse(code) ==
    IF ok(code) THEN NoDetails ELSE [NoDetails EXCEPT !.httpStatus = code]

\* the result built in the catch block of checkServiceHealth
failedCheck(start, message) ==
    HealthCheckResult("unhealthy", now, now - start, [NoDetails EXCEPT !.error = message])

\* the result for an id that is not in the Directory
notFoundCheck ==
    HealthCheckResult("unknown", now, 0, [NoDetails EXCEPT !.error = "Service not found"])

-----------------------------------------------------------------------------
(* HealthService: overall status, as derived in checkAllServices and in    *)
(* getAggregatedHealth                                                     *)

\* a derivation that would report unhealthy as soon as one entry is
overallStatusAnyUnhealthy(total, healthy, unhealthy, degraded) ==
    IF unhealthy > 0 THEN "unhealthy"
    ELSE IF degraded > 0 THEN "degraded"
    ELSE IF healthy > 0 THEN "healthy"
    ELSE "unknown"

overallStatusCheckAll(total, healthy, unhealthy, degraded) ==
    IF unhealthy > 0 THEN (IF total = unhealthy THEN "unhealthy" ELSE "degraded")
    ELSE IF degraded > 0 THEN "degraded"
    ELSE IF healthy > 0 THEN "healthy"
    ELSE "unknown"

\* a derivation that would report unhealthy as soon as one entry is
overallStatusAggregatedWorst(total, healthy, unhealthy, degraded) ==
    IF unhealthy > 0 THEN "unhealthy"
    ELSE IF degraded > 0 THEN "degraded"
    ELSE IF healthy > 0 THEN "healthy"
    ELSE "unknown"

overallStatusAggregated(total, healthy, unhealthy, degraded) ==
    IF unhealthy > 0 THEN (IF total = unhealthy THEN "unhealthy" ELSE "degraded")
    ELSE IF degraded > 0 THEN "degraded"
    ELSE IF healthy > 0 THEN "healthy"
    ELSE "unknown"

AggregatedHealth(status, total, healthy, unhealthy, degraded, unknown, details) ==
    [status |-> status, timestamp |-> now,
     services |-> [total |-> total, healthy |-> healthy, unhealthy |-> unhealthy,
                   degraded |-> degraded, unknown |-> unknown],
     details |-> details]

-----------------------------------------------------------------------------
(* checkAllServices in flight: the array findAll returned (the fields the  *)
(* loop reads: id and name, both immutable), the loop position, counters   *)

SweepIds == 1..MaxSweeps

NoSweep == [active |-> FALSE]

\* the sweep's position in its list and its counters; and, for the record,
\* the keys of the Directory when it started and what each check met
Sweep(list) ==
    [active |-> TRUE, list |-> list, idx |-> 1,
     healthy |-> 0, unhealthy |-> 0, degraded |-> 0, unknown |-> 0, details |-> <<>>,
     keys |-> <<>>, probes |-> <<>>, by |-> "caller"]

\* a loop that drops the record of a check that failed
tallyOmitsUnhealthy(sw, result) ==
    IF result.status = "unhealthy"
    THEN [sw EXCEPT !.unhealthy = @ + 1, !.idx = @ + 1]
    ELSE [sw EXCEPT
        !.healthy = IF result.status = "healthy" THEN @ + 1 ELSE @,
        !.degraded = IF result.status = "degraded" THEN @ + 1 ELSE @,
        !.unknown = IF result.status \notin {"healthy", "degraded"} THEN @ + 1 ELSE @,
        !.details = Append(@, [serviceId |-> sw.list[sw.idx].id,
                               serviceName |-> sw.list[sw.idx].name,
                               status |-> result.status,
                               lastCheck |-> result.timestamp,
                               responseTimeMs |-> result.responseTimeMs,
                               error |-> result.details.error]),
        !.idx = @ + 1]

\* the switch on healthResult.status and details.push, then the next element
tally(sw, result) ==
    [sw EXCEPT
        !.healthy = IF result.status = "healthy" THEN @ + 1 ELSE @,
        !.unhealthy = IF result.status = "unhealthy" THEN @ + 1 ELSE @,
        !.degraded = IF result.status = "degraded" THEN @ + 1 ELSE @,
        !.unknown = IF result.status \notin {"healthy", "unhealthy", "degraded"} THEN @ + 1 ELSE @,
        !.details = Append(@, [serviceId |-> sw.list[sw.idx].id,
                               serviceName |-> sw.list[sw.idx].name,
                               status |-> result.status,
                               lastCheck |-> result.timestamp,
                               responseTimeMs |-> result.responseTimeMs,
                               error |-> result.details.error]),
        !.idx = @ + 1]

\* the loop runs on while checkServiceHealth returns without a fetch
\* (the id is no longer in the Directory)
RECURSIVE runLoop(_, _)
runLoop(sw, m) ==
    IF sw.idx > Len(sw.list) THEN sw
    ELSE IF findById(m, sw.list[sw.idx].id) = 0
    THEN runLoop([tally(sw, notFoundCheck) EXCEPT !.probes = Append(@, "absent")], m)
    ELSE sw

sweepSummary(sw) ==
    AggregatedHealth(
        overallStatusCheckAll(Len(sw.list), sw.healthy, sw.unhealthy, sw.degraded),
        Len(sw.list), sw.healthy, sw.unhealthy, sw.degraded, sw.unknown, sw.details)

-----------------------------------------------------------------------------
(* broadcast in flight: the ids selected, and the results Map so far       *)

BcastIds == 1..MaxBcasts

NoBcast == [active |-> FALSE]

ProxyResponse(status, body, responseTimeMs) ==
    [status |-> status, body |-> body, responseTimeMs |-> responseTimeMs]

NoResponse == ProxyResponse(0, NoBody, 0)

\* a leg that would record its failure as an empty body
LegErrorAsBody(message) == [error |-> "", body |-> NoBody]

\* a broadcast leg's entry is the body, or { error: message }
LegError(message) == [error |-> message, body |-> NoBody]

-----------------------------------------------------------------------------
(* EventService.  A Set is kept as the list of its entries in insertion    *)
(* order; an entry deleted while an emit is iterating stays in the list as *)
(* Gone, which is how a live Set iterator sees it.                         *)

EventType ==
    {"service.registered", "service.deregistered", "service.health_changed",
     "command.dispatched", "command.completed", "command.failed",
     "workflow.started", "workflow.completed", "workflow.failed"}

maxRecentEvents == 100

DomainEvent(type, serviceId, timestamp, data) ==
    [type |-> type, serviceId |-> serviceId, timestamp |-> timestamp, data |-> data]

\* an emit that would not store the event before it calls the handlers
unshiftEventLater(buf, event) == buf

\* recentEvents.unshift(event), then pop() when the list is over capacity
unshiftEventBelowCapacity(buf, event) ==
    LET b == <<event>> \o buf
    IN  IF Len(b) >= maxRecentEvents THEN SubSeq(b, 1, Len(b) - 1) ELSE b

unshiftEvent(buf, event) ==
    LET b == <<event>> \o buf
    IN  IF Len(b) > maxRecentEvents THEN SubSeq(b, 1, Len(b) - 1) ELSE b

\* a slice that takes the entry at index limit too
sliceEventsInclusive(buf, limit) == SubSeq(buf, 1, Min({limit + 1, Len(buf)}))

\* recentEvents.slice(0, limit), for a limit that is not negative
sliceEvents(buf, limit) == SubSeq(buf, 1, Min({limit, Len(buf)}))

\* the handler functions subscribers pass
Handlers == {"h1", "h2"}

Gone == "gone"

\* an add that does not look for the value among the entries
setAddAgain(entries, h) == Append(entries, h)

\* Set.add(h)
setAdd(entries, h) ==
    IF \E i \in 1..Len(entries) : entries[i] = h THEN entries ELSE Append(entries, h)

\* Set.delete(h)
setDelete(entries, h) ==
    [i \in 1..Len(entries) |-> IF entries[i] = h THEN Gone ELSE entries[i]]

\* the entries a new iteration would visit
liveEntries(entries) == SelectSeqBy(entries, Range(entries) \ {Gone})

\* a Set iterator's next(): the first entry after position idx, 0 when done
nextEntry(entries, idx) ==
    LET rest == {j \in 1..Len(entries) : j > idx /\ entries[j] # Gone}
    IN  IF rest = {} THEN 0 ELSE Min(rest)

EmitIds == 1..MaxInFlight

NoEmit == [active |-> FALSE]

\* emit(event) in flight: the loop it is in, its iterator's position, the
\* handlers it has invoked; and, for the record, the handlers subscribed
\* when it started and those unsubscribed from its type since
Emit(event, hs, ah) ==
    [active |-> TRUE, event |-> event, stage |-> "type", idx |-> 0, invoked |-> <<>>,
     typeOrder |-> liveEntries(hs[event.type]), allOrder |-> liveEntries(ah),
     removed |-> {}]

Invocation(h, stage, outcome) == [handler |-> h, stage |-> stage, outcome |-> outcome]

\* emit without the try/catch around the handler call: the error of the
\* handler just awaited ends the loops
nextHandlerUncaught(em, hs, ah, outcome) ==
    LET th == hs[em.event.type]
        j == IF em.stage = "type" THEN nextEntry(th, em.idx) ELSE 0
        k == nextEntry(ah, IF em.stage = "type" THEN 0 ELSE em.idx)
        threw == em.invoked # <<>> /\ em.invoked[Len(em.invoked)].outcome = "throws"
    IN  IF threw
        THEN [em EXCEPT !.stage = "done"]
        ELSE IF j # 0
        THEN [em EXCEPT !.idx = j,
                        !.invoked = Append(@, Invocation(th[j], "type", outcome))]
        ELSE IF k # 0
        THEN [em EXCEPT !.stage = "all", !.idx = k,
                        !.invoked = Append(@, Invocation(ah[k], "all", outcome))]
        ELSE [em EXCEPT !.stage = "done"]

\* emit with its two loops exchanged: the all-events handlers first
nextHandlerAllFirst(em, hs, ah, outcome) ==
    LET th == hs[em.event.type]
        k == IF em.stage = "type" THEN nextEntry(ah, em.idx) ELSE 0
        j == nextEntry(th, IF em.stage = "type" THEN 0 ELSE em.idx)
    IN  IF k # 0
        THEN [em EXCEPT !.idx = k,
                        !.invoked = Append(@, Invocation(ah[k], "all", outcome))]
        ELSE IF j # 0
        THEN [em EXCEPT !.stage = "all", !.idx = j,
                        !.invoked = Append(@, Invocation(th[j], "type", outcome))]
        ELSE [em EXCEPT !.stage = "done"]

\* emit from the end of one "await handler(event)" (whatever it gave: the
\* catch block only logs) to the next handler call, which will have the
\* given outcome, or to the end of both loops
nextHandler(em, hs, ah, outcome) ==
    LET th == hs[em.event.type]
        j == IF em.stage = "type" THEN nextEntry(th, em.idx) ELSE 0
        k == nextEntry(ah, IF em.stage = "type" THEN 0 ELSE em.idx)
    IN  IF j # 0
        THEN [em EXCEPT !.idx = j,
                        !.invoked = Append(@, Invocation(th[j], "type", outcome))]
        ELSE IF k # 0
        THEN [em EXCEPT !.stage = "all", !.idx = k,
                        !.invoked = Append(@, Invocation(ah[k], "all", outcome))]
        ELSE [em EXCEPT !.stage = "done"]

\* the state after a step that leaves emit i as em: suspended in a handler,
\* or returned; with no emit left iterating, deleted entries are dropped
emitGoesOn(i, em, hs, ah) ==
    IF em.stage # "done"
    THEN /\ emits' = [emits EXCEPT ![i] = em]
         /\ handlers' = hs
         /\ allHandlers' = ah
         /\ UNCHANGED returned
    ELSE /\ emits' = [emits EXCEPT ![i] = NoEmit]
         /\ IF \A j \in EmitIds \ {i} : ~emits[j].active
            THEN /\ handlers' = [t \in EventType |-> liveEntries(hs[t])]
                 /\ allHandlers' = liveEntries(ah)
            ELSE /\ handlers' = hs
                 /\ allHandlers' = ah
         /\ returned' = Returned("emit", <<>>, NoArg, "",
                                 [event |-> em.event, invoked |-> em.invoked,
                                  typeOrder |-> em.typeOrder, allOrder |-> em.allOrder,
                                  removed |-> em.removed])

\* an emit that would store nothing
emitNowhere(event) ==
    /\ \A t \in EventType : handlers[t] = <<>>
    /\ allHandlers = <<>>
    /\ UNCHANGED <<recentEvents, log, handlers, allHandlers, emits>>

\* emit(event) with nobody subscribed, as the services of this program call
\* it: the event is stored and emit returns
emitUnheard(event) ==
    /\ \A t \in EventType : handlers[t] = <<>>
    /\ allHandlers = <<>>
    /\ recentEvents' = unshiftEvent(recentEvents, event)
    /\ log' = Append(log, event)
    /\ UNCHANGED <<handlers, allHandlers, emits>>

\* how many more events the run lets be emitted: the ones in the history and
\* the one each registration in flight will emit count
emitRoom(cs) ==
    limits.emits - Len(log)
        - BagCardinality([c \in {x \in BagToSet(cs) : x.parent.op = "registerService"}
                             |-> cs[c]])

-----------------------------------------------------------------------------
(* Continuations: what runs, in the same segment, when a call settles      *)

\* checkAllServices after one checkServiceHealth has returned `result`
proceedSweep(k, sw1, h1, m1, cs1) ==
    LET sw2 == runLoop(sw1, m1)
    IN  IF sw2.idx > Len(sw2.list)
        THEN /\ sweeps' = [sweeps EXCEPT ![k] = NoSweep]
             /\ commit(h1, m1, cs1)
             /\ returned' = Returned(IF sw2.by = "timer" THEN "health check cycle"
                                     ELSE "checkAllServices", <<>>,
                                     [NoArg EXCEPT !.kind = "sweep", !.keys = sw2.keys,
                                                   !.probes = sw2.probes],
                                     "", sweepSummary(sw2))
        ELSE LET id == sw2.list[sw2.idx].id
                 cs2 == issue(cs1, Call("health", id, findById(m1, id), now,
                                        0, HEALTH_CHECK_TIMEOUT_MS,
                                        Parent("checkAllServices", k)))
             IN  /\ sweeps' = [sweeps EXCEPT ![k] = sw2]
                 /\ commit(h1, m1, cs2)
                 /\ UNCHANGED returned

\* checkServiceHealth from "service.updateHealthStatus(result)" to its return,
\* and on into the caller that awaited it
finishCheck(call, probe, result) ==
    LET h1 == [heap EXCEPT ![call.ref] = updateHealthStatus(@, result, now)]
        m1 == save(services, call.sid, call.ref)
        cs1 == settle(calls, call)
    IN  /\ UNCHANGED <<now, ticks, bcasts, agg, limits, workflow, timer>>
        /\ CASE call.parent.op = "checkServiceHealth" ->
                  /\ commit(h1, m1, cs1)
                  /\ returned' = Returned("checkServiceHealth", call.sid, probe, "", result)
                  /\ UNCHANGED <<sweeps, evs>>
             [] call.parent.op = "registerService" ->
                  /\ commit(h1, m1, cs1)
                  /\ returned' = Returned("registerService", call.sid,
                                          [NoArg EXCEPT !.name = h1[call.ref].name,
                                                        !.type = h1[call.ref].type],
                                          "", toSnapshot(h1[call.ref]))
                  /\ emitUnheard(DomainEvent("service.registered", call.sid, now,
                                             [name |-> h1[call.ref].name,
                                              type |-> h1[call.ref].type]))
                  /\ UNCHANGED sweeps
             [] call.parent.op = "checkAllServices" ->
                  /\ proceedSweep(call.parent.ix,
                                  [tally(sweeps[call.parent.ix], result)
                                      EXCEPT !.probes = Append(@, probe.kind)],
                                  h1, m1, cs1)
                  /\ UNCHANGED evs

\* a test that lets status 400 pass
commandFailedAbove400(status) == status > 400

\* dispatchCommand: "if (response.status >= 400)"
commandFailed(status) == status >= 400

\* proxy from the end of the body read (or from its catch block) to its
\* return or throw, and on into the caller that awaited it.
\* error "" is the success path: touch, save, return the response.
finishProxy(call, probe, error, response) ==
    LET arg == [probe EXCEPT !.timeout = call.timeout]
        h1 == IF error = "" THEN [heap EXCEPT ![call.ref] = touch(@, now)] ELSE heap
        m1 == IF error = "" THEN save(services, call.sid, call.ref) ELSE services
        cs1 == settle(calls, call)
        ix == call.parent.ix
    IN  /\ UNCHANGED <<now, ticks, sweeps, agg, limits, workflow, timer, evs>>
        /\ commit(h1, m1, cs1)
        /\ CASE call.parent.op = "proxy" ->
                  /\ returned' = Returned("proxy", call.sid, arg, error, response)
                  /\ UNCHANGED bcasts
             [] call.parent.op = "dispatchCommand" ->
                  /\ returned' =
                        IF error # "" THEN Returned("dispatchCommand", call.sid, arg, error, NoResponse)
                        ELSE IF commandFailed(response.status)
                        THEN Returned("dispatchCommand", call.sid, arg, "COMMAND_DISPATCH_FAILED",
                                      ProxyResponse(response.status, NoBody, 0))
                        ELSE Returned("dispatchCommand", call.sid, arg, "",
                                      ProxyResponse(0, response.body, 0))
                  /\ UNCHANGED bcasts
             [] call.parent.op = "broadcast" ->
                  LET entry == IF error = "" THEN [error |-> "", body |-> response.body]
                               ELSE LegError(error)
                      \* results.set(id, value): the Map as a function from the ids set so far
                      res == [x \in (DOMAIN bcasts[ix].results) \cup {call.sid} |->
                                 IF x = call.sid THEN entry ELSE bcasts[ix].results[x]]
                  IN  IF {c \in BagToSet(cs1) : c.parent = Parent("broadcast", ix)} = {}
                      THEN /\ bcasts' = [bcasts EXCEPT ![ix] = NoBcast]
                           /\ returned' = Returned("broadcast", <<>>, NoArg, "",
                                                   [type |-> bcasts[ix].type, results |-> res])
                      ELSE /\ bcasts' = [bcasts EXCEPT ![ix].results = res]
                           /\ UNCHANGED returned

-----------------------------------------------------------------------------
(* RegistryService *)

\* the identifier exists: touch, save, return the existing snapshot
RegisterExisting(req) ==
    LET id == generateServiceId(req.name)
        ref == findById(services, id)
    IN  /\ ref # 0
        /\ heap' = [heap EXCEPT ![ref] = touch(@, now)]
        /\ services' = save(services, id, ref)
        /\ returned' = Returned("registerService", id,
                                [NoArg EXCEPT !.name = req.name, !.type = req.type],
                                "", toSnapshot(heap'[ref]))
        /\ UNCHANGED <<now, ticks, calls, sweeps, bcasts, agg, limits, workflow, timer, evs>>

\* the Service constructor throws
RegisterInvalid(req) ==
    LET id == generateServiceId(req.name)
    IN  /\ findById(services, id) = 0
        /\ ~ServiceValid(id, req)
        /\ returned' = Returned("registerService", id,
                                [NoArg EXCEPT !.name = req.name, !.type = req.type],
                                "VALIDATION_ERROR", 0)
        /\ UNCHANGED <<now, ticks, services, heap, calls, sweeps, bcasts, agg, limits, workflow, timer, evs>>

\* new Service, save, and the initial checkServiceHealth up to its fetch
RegisterNew(req) ==
    LET id == generateServiceId(req.name)
    IN  /\ findById(services, id) = 0
        /\ ServiceValid(id, req)
        /\ FreeRefs # {}
        /\ room(calls) > 0
        /\ emitRoom(calls) > 0
        /\ LET ref == Min(FreeRefs)
           IN  commit([heap EXCEPT ![ref] = Service(id, req, now)],
                      save(services, id, ref),
                      issue(calls, Call("health", id, ref, now, 0, HEALTH_CHECK_TIMEOUT_MS,
                                        Parent("registerService", 0))))
        /\ UNCHANGED <<now, ticks, sweeps, bcasts, returned, agg, limits, workflow, timer, evs>>

DeregisterService(id) ==
    LET ref == findById(services, id)
    IN  /\ IF ref = 0
           THEN /\ returned' = Returned("deregisterService", id, NoArg, "NOT_FOUND", 0)
                /\ UNCHANGED <<services, heap, calls, evs>>
           ELSE /\ emitRoom(calls) > 0
                /\ commit(heap, delete(services, id), calls)
                /\ emitUnheard(DomainEvent("service.deregistered", id, now,
                                           [name |-> heap[ref].name, type |-> ""]))
                /\ returned' = Returned("deregisterService", id, NoArg, "", 0)
        /\ UNCHANGED <<now, ticks, sweeps, bcasts, agg, limits, workflow, timer>>

\* a getService that would give null for an id the Directory does not hold
GetServiceOrNull(id) ==
    LET ref == findById(services, id)
    IN  /\ returned' = IF ref = 0 THEN Returned("getService", id, NoArg, "", 0)
                       ELSE Returned("getService", id, NoArg, "", toSnapshot(heap[ref]))
        /\ UNCHANGED <<now, ticks, services, heap, calls, sweeps, bcasts, agg, limits, workflow, timer, evs>>

GetService(id) ==
    LET ref == findById(services, id)
    IN  /\ returned' = IF ref = 0 THEN Returned("getService", id, NoArg, "NOT_FOUND", 0)
                       ELSE Returned("getService", id, NoArg, "", toSnapshot(heap[ref]))
        /\ UNCHANGED <<now, ticks, services, heap, calls, sweeps, bcasts, agg, limits, workflow, timer, evs>>

\* a heartbeat that would fail for an id the Directory does not hold
HeartbeatOrFail(id) ==
    LET ref == findById(services, id)
    IN  /\ IF ref = 0
           THEN UNCHANGED <<services, heap>>
           ELSE /\ heap' = [heap EXCEPT ![ref] = touch(@, now)]
                /\ services' = save(services, id, ref)
        /\ returned' = Returned("heartbeat", id, NoArg, IF ref = 0 THEN "NOT_FOUND" ELSE "", 0)
        /\ UNCHANGED <<now, ticks, calls, sweeps, bcasts, agg, limits, workflow, timer, evs>>

Heartbeat(id) ==
    LET ref == findById(services, id)
    IN  /\ IF ref = 0
           THEN UNCHANGED <<services, heap>>
           ELSE /\ heap' = [heap EXCEPT ![ref] = touch(@, now)]
                /\ services' = save(services, id, ref)
        /\ returned' = Returned("heartbeat", id, NoArg, "", 0)
        /\ UNCHANGED <<now, ticks, calls, sweeps, bcasts, agg, limits, workflow, timer, evs>>

-----------------------------------------------------------------------------
(* HealthService *)

\* checkServiceHealth called directly, up to its fetch or its early return
CheckServiceHealth(id) ==
    LET ref == findById(services, id)
    IN  /\ IF ref = 0
           THEN /\ returned' = Returned("checkServiceHealth", id, Probe("absent", 0), "", notFoundCheck)
                /\ UNCHANGED calls
           ELSE /\ room(calls) > 0
                /\ calls' = issue(calls, Call("health", id, ref, now, 0, HEALTH_CHECK_TIMEOUT_MS,
                                              Parent("checkServiceHealth", 0)))
                /\ UNCHANGED returned
        /\ UNCHANGED <<now, ticks, services, heap, sweeps, bcasts, agg, limits, workflow, timer, evs>>

\* checkAllServices up to the first fetch, or to its return when no entry
\* needs one
CheckAllServices ==
    \E k \in SweepIds :
        /\ ~sweeps[k].active
        /\ k <= limits.sweeps
        /\ k = Min({j \in SweepIds : ~sweeps[j].active})
        /\ services # <<>> => room(calls) > 0
        /\ LET all == findAll(services)
               list == [i \in 1..Len(all) |-> [id |-> heap[all[i]].id,
                                               name |-> heap[all[i]].name]]
           IN  proceedSweep(k, [Sweep(list) EXCEPT
                                      !.keys = [i \in 1..Len(services) |-> services[i].id]],
                               heap, services, calls)
        /\ UNCHANGED <<now, ticks, bcasts, agg, limits, workflow, timer, evs>>

\* the health check of a probe whose response is not ok
HealthRespondsNotOk(c, code) ==
    /\ c \in BagToSet(calls) /\ c.kind = "health" /\ c.phase = "fetch"
    /\ ~ok(code)
    /\ finishCheck(c, Probe("response", code),
                   HealthCheckResult(statusOfResponse(code), now, now - c.start,
                                     detailsOfResponse(code)))

\* an ok response: clearTimeout, then await response.json()
HealthRespondsOk(c, code) ==
    /\ c \in BagToSet(calls) /\ c.kind = "health" /\ c.phase = "fetch"
    /\ ok(code)
    /\ calls' = issue(settle(calls, c),
                       [c EXCEPT !.phase = "body", !.code = code,
                                 !.responseTimeMs = now - c.start])
    /\ UNCHANGED <<now, ticks, services, heap, sweeps, bcasts, returned, agg, limits, workflow, timer, evs>>

\* response.json() resolves (parsed = TRUE) or rejects and is swallowed
HealthBody(c, parsed) ==
    /\ c \in BagToSet(calls) /\ c.kind = "health" /\ c.phase = "body"
    /\ finishCheck(c, Probe("response", c.code),
                   HealthCheckResult(statusOfResponse(c.code), now, c.responseTimeMs,
                                     IF parsed THEN [NoDetails EXCEPT !.body = "parsed"]
                                     ELSE NoDetails))

\* fetch rejects: a network failure, or the abort timer has fired
HealthFetchFails(c) ==
    /\ c \in BagToSet(calls) /\ c.kind = "health" /\ c.phase = "fetch"
    /\ finishCheck(c, Probe("network", 0), failedCheck(c.start, "fetch failed"))

HealthTimeout(c) ==
    /\ c \in BagToSet(calls) /\ c.kind = "health" /\ c.phase = "fetch"
    /\ now >= c.deadline
    /\ finishCheck(c, Probe("timeout", 0),
                   failedCheck(c.start, "This operation was aborted"))

\* getServiceHealth: service?.lastHealthCheck || null
\* a lookup that would make a result of the status of an entry never checked
lastHealthCheckOrStatus(m, h, id) ==
    LET ref == findById(m, id)
    IN  IF ref = 0 THEN NoResult
        ELSE IF h[ref].lastHealthCheck = NoResult
        THEN HealthCheckResult(h[ref].status, h[ref].lastSeenAt, 0, NoDetails)
        ELSE h[ref].lastHealthCheck

\* service?.lastHealthCheck || null
lastHealthCheckOf(m, h, id) ==
    LET ref == findById(m, id)
    IN  IF ref = 0 THEN NoResult ELSE h[ref].lastHealthCheck

GetServiceHealth(id) ==
        /\ returned' = Returned("getServiceHealth", id, NoArg, "",
                                lastHealthCheckOf(services, heap, id))
        /\ UNCHANGED <<now, ticks, services, heap, calls, sweeps, bcasts, agg, limits, workflow, timer, evs>>

countStatus(m, h, st) == Cardinality({i \in 1..Len(m) : h[m[i].ref].status = st})

\* a summary that would count as unknown only the entries in status unknown
aggregatedHealthKnownOnly(m, h) ==
    LET healthy == countStatus(m, h, "healthy")
        unhealthy == countStatus(m, h, "unhealthy")
        degraded == countStatus(m, h, "degraded")
    IN  AggregatedHealth(overallStatusAggregated(Len(m), healthy, unhealthy, degraded),
                         Len(m), healthy, unhealthy, degraded, countStatus(m, h, "unknown"),
                         <<>>)

\* the summary getAggregatedHealth makes of the entries findAll gives
aggregatedHealth(m, h) ==
    LET healthy == countStatus(m, h, "healthy")
        unhealthy == countStatus(m, h, "unhealthy")
        degraded == countStatus(m, h, "degraded")
        unknown == Cardinality({i \in 1..Len(m) :
                        h[m[i].ref].status \notin {"healthy", "unhealthy", "degraded"}})
        details == [i \in 1..Len(m) |->
                       LET svc == h[m[i].ref]
                       IN  [serviceId |-> svc.id, serviceName |-> svc.name,
                            status |-> svc.status,
                            lastCheck |-> svc.lastHealthCheck.timestamp,
                            responseTimeMs |-> svc.lastHealthCheck.responseTimeMs,
                            error |-> ""]]
    IN  AggregatedHealth(overallStatusAggregated(Len(m), healthy, unhealthy, degraded),
                         Len(m), healthy, unhealthy, degraded, unknown, details)

GetAggregatedHealth ==
        /\ returned' = Returned("getAggregatedHealth", <<>>, NoArg, "",
                                aggregatedHealth(services, heap))
        /\ UNCHANGED <<now, ticks, services, heap, calls, sweeps, bcasts, agg, limits, workflow, timer, evs>>

-----------------------------------------------------------------------------
(* GatewayService *)

\* a timeout that would ignore the one the request gives
timeoutDefault(t) == COMMAND_TIMEOUT_MS

\* request.timeout || COMMAND_TIMEOUT_MS
timeoutOf(t) == IF t = 0 THEN COMMAND_TIMEOUT_MS ELSE t

\* proxy up to its fetch, or to its throw; op is the caller awaiting it
\* ("proxy" for a direct call, "dispatchCommand")
startProxy(op, id, t) ==
    LET ref == findById(services, id)
    IN  /\ IF ref = 0
           THEN /\ returned' = Returned(op, id, [NoArg EXCEPT !.timeout = t], "NOT_FOUND", NoResponse)
                /\ UNCHANGED calls
           ELSE IF ~isAvailable(heap[ref])
           THEN /\ returned' = Returned(op, id, [NoArg EXCEPT !.timeout = t], "SERVICE_UNAVAILABLE", NoResponse)
                /\ UNCHANGED calls
           ELSE /\ room(calls) > 0
                /\ calls' = issue(calls, Call("proxy", id, ref, now, t, timeoutOf(t), Parent(op, 0)))
                /\ UNCHANGED returned
        /\ UNCHANGED <<now, ticks, services, heap, sweeps, bcasts, agg, limits, workflow, timer, evs>>

Proxy(id, t) == startProxy("proxy", id, t)

DispatchCommand(id) == startProxy("dispatchCommand", id, 0)

\* the legs Promise.all starts: one proxy per selected service, each up to
\* its fetch
RECURSIVE startLegs(_, _, _)
startLegs(cs, refs, ix) ==
    IF refs = <<>> THEN cs
    ELSE LET svc == heap[Head(refs)]
         IN  startLegs(issue(cs, Call("proxy", svc.id, findById(services, svc.id),
                                      now, 0, timeoutOf(0), Parent("broadcast", ix))),
                       Tail(refs), ix)

Broadcast(type) ==
    \E ix \in BcastIds :
        /\ ~bcasts[ix].active
        /\ ix = Min({j \in BcastIds : ~bcasts[j].active})
        /\ LET found == findByType(services, heap, type)
               selected == SelectSeqBy(found, {r \in Range(found) : isAvailable(heap[r])})
           IN  /\ Len(selected) <= room(calls)
               /\ IF selected = <<>>
                  THEN /\ returned' = Returned("broadcast", <<>>, NoArg, "",
                                               [type |-> type, results |-> <<>>])
                       /\ UNCHANGED <<calls, bcasts>>
                  ELSE /\ calls' = startLegs(calls, selected, ix)
                       /\ bcasts' = [bcasts EXCEPT ![ix] =
                                        [active |-> TRUE, type |-> type,
                                         targets |-> {heap[r].id : r \in Range(selected)},
                                         results |-> <<>>]]
                       /\ UNCHANGED returned
        /\ UNCHANGED <<now, ticks, services, heap, sweeps, agg, limits, workflow, timer, evs>>

\* fetch resolves: clearTimeout, then await response.json() or .text()
ProxyResponds(c, code) ==
    /\ c \in BagToSet(calls) /\ c.kind = "proxy" /\ c.phase = "fetch"
    /\ calls' = issue(settle(calls, c),
                       [c EXCEPT !.phase = "body", !.code = code,
                                 !.responseTimeMs = now - c.start])
    /\ UNCHANGED <<now, ticks, services, heap, sweeps, bcasts, returned, agg, limits, workflow, timer, evs>>

\* the body read resolves: touch, save, return
ProxyBody(c) ==
    /\ c \in BagToSet(calls) /\ c.kind = "proxy" /\ c.phase = "body"
    /\ finishProxy(c, Probe("response", c.code), "",
                   \* the body the target delivers, tagged with where it came from
                   ProxyResponse(c.code, [from |-> c.sid, status |-> c.code], c.responseTimeMs))

\* the body read rejects: rethrown as it is
ProxyBodyFails(c) ==
    /\ c \in BagToSet(calls) /\ c.kind = "proxy" /\ c.phase = "body"
    /\ finishProxy(c, Probe("body failed", c.code), "body failed", NoResponse)

\* fetch rejects with a network failure: rethrown as it is
ProxyFetchFails(c) ==
    /\ c \in BagToSet(calls) /\ c.kind = "proxy" /\ c.phase = "fetch"
    /\ finishProxy(c, Probe("network", 0), "fetch failed", NoResponse)

\* the abort timer fires: AbortError becomes GATEWAY_TIMEOUT
ProxyTimeout(c) ==
    /\ c \in BagToSet(calls) /\ c.kind = "proxy" /\ c.phase = "fetch"
    /\ now >= c.deadline
    /\ finishProxy(c, Probe("timeout", 0), "GATEWAY_TIMEOUT", NoResponse)

-----------------------------------------------------------------------------
(* EventService operations, with subscribers.  A handler call either       *)
(* returns or throws (or rejects); whatever else runs while emit awaits a  *)
(* handler, the handler's own calls included, is a step of its own.        *)

\* emit(event) up to its first handler call, or to its return
EmitEvent(type, outcome) ==
    \E i \in EmitIds :
        /\ ~emits[i].active
        /\ i = Min({j \in EmitIds : ~emits[j].active})
        /\ Len(log) < limits.emits
        /\ LET event == DomainEvent(type, <<>>, now, Len(log) + 1)
               em == nextHandler(Emit(event, handlers, allHandlers),
                                 handlers, allHandlers, outcome)
           IN  /\ recentEvents' = unshiftEvent(recentEvents, event)
               /\ log' = Append(log, event)
               /\ emitGoesOn(i, em, handlers, allHandlers)
        /\ UNCHANGED <<now, ticks, services, heap, calls, sweeps, bcasts, agg, limits, workflow, timer>>

\* the handler awaited has returned or thrown: on to the next one
EmitResumes(i, outcome) ==
    /\ emits[i].active
    /\ emitGoesOn(i, nextHandler(emits[i], handlers, allHandlers, outcome),
                  handlers, allHandlers)
    /\ UNCHANGED <<now, ticks, services, heap, calls, sweeps, bcasts, agg, limits, workflow, timer,
                   recentEvents, log>>

Subscribe(type, h) ==
    /\ Len(setAdd(handlers[type], h)) <= MaxEntries
    /\ handlers' = [handlers EXCEPT ![type] = setAdd(@, h)]
    /\ UNCHANGED <<now, ticks, services, heap, calls, sweeps, bcasts, returned, agg, limits, workflow, timer,
                   recentEvents, log, allHandlers, emits>>

Unsubscribe(type, h) ==
    /\ handlers' = [handlers EXCEPT ![type] =
                       IF \E i \in EmitIds : emits[i].active THEN setDelete(@, h)
                       ELSE liveEntries(setDelete(@, h))]
    /\ emits' = [i \in EmitIds |->
                    IF emits[i].active /\ emits[i].event.type = type
                    THEN [emits[i] EXCEPT !.removed = @ \cup {h}]
                    ELSE emits[i]]
    /\ UNCHANGED <<now, ticks, services, heap, calls, sweeps, bcasts, returned, agg, limits, workflow, timer,
                   recentEvents, log, allHandlers>>

SubscribeAll(h) ==
    /\ Len(setAdd(allHandlers, h)) <= MaxEntries
    /\ allHandlers' = setAdd(allHandlers, h)
    /\ UNCHANGED <<now, ticks, services, heap, calls, sweeps, bcasts, returned, agg, limits, workflow, timer,
                   recentEvents, log, handlers, emits>>

GetRecentEvents(limit) ==
    /\ returned' = Returned("getRecentEvents", <<>>, [NoArg EXCEPT !.limit = limit], "",
                            sliceEvents(recentEvents, limit))
    /\ UNCHANGED <<now, ticks, services, heap, calls, sweeps, bcasts, agg, limits, workflow, timer, evs>>

-----------------------------------------------------------------------------
(* HealthService: the periodic check. The interval timer whose handle is   *)
(* kept in healthCheckInterval, how each of its cycles went, whether the   *)
(* last call was startHealthChecks, whether the timer was installed in     *)
(* place of a running one, and how many intervals run without a handle     *)

NoTimer == [on |-> FALSE, intervalMs |-> 0, since |-> 0, due |-> 0,
            cycles |-> <<>>, wanted |-> FALSE, replaced |-> FALSE, orphans |-> 0]

\* setInterval(callback, intervalMs)
setInterval(intervalMs) ==
    [on |-> TRUE, intervalMs |-> intervalMs, since |-> now, due |-> now + intervalMs,
     cycles |-> <<>>, wanted |-> TRUE, replaced |-> FALSE, orphans |-> 0]

\* a stop that would leave the interval running
stopKeepsInterval(t) == [t EXCEPT !.wanted = FALSE]

\* stopHealthChecks: clearInterval and forget the handle, if there is one
stopHealthChecks(t) ==
    IF t.on THEN [t EXCEPT !.on = FALSE, !.wanted = FALSE] ELSE [t EXCEPT !.wanted = FALSE]

\* the handle is overwritten by that of a new interval: an interval still
\* running under the old handle runs on without one
install(t, intervalMs) ==
    [setInterval(intervalMs) EXCEPT !.orphans = t.orphans + (IF t.on THEN 1 ELSE 0)]

\* a start that would not stop the interval already running
startHealthChecksAgain(t, intervalMs) == install(t, intervalMs)

\* startHealthChecks: an interval already running is stopped first
startHealthChecks(t, intervalMs) ==
    [install(IF t.on THEN stopHealthChecks(t) ELSE t, intervalMs) EXCEPT !.replaced = t.on]

StartHealthChecks(intervalMs) ==
    /\ timer' = startHealthChecks(timer, intervalMs)
    /\ UNCHANGED <<now, ticks, services, heap, calls, sweeps, bcasts, returned, agg,
                   limits, workflow, evs>>

StopHealthChecks ==
    /\ timer' = stopHealthChecks(timer)
    /\ UNCHANGED <<now, ticks, services, heap, calls, sweeps, bcasts, returned, agg,
                   limits, workflow, evs>>

\* the timer is re-armed for the next cycle as its callback is called
cycleBegins(t) == [t EXCEPT !.due = @ + t.intervalMs]

\* a callback without the try/catch: the rejection of checkAllServices is
\* unhandled, which ends the process and its timers
cycleRejectedUncaught(t) == [t EXCEPT !.cycles = Append(@, "failed"), !.on = FALSE]

\* checkAllServices rejected: the callback's catch block logs the error
cycleRejected(t) == [t EXCEPT !.cycles = Append(@, "failed")]

\* checkAllServices is under way, or has returned
cycleSweeps(t) == [t EXCEPT !.cycles = Append(@, "sweep")]

\* the interval elapses: the callback calls checkAllServices, whose first
\* await, registryRepository.findAll(), rejects or gives the entries
IntervalFires(rejects) ==
    /\ timer.on
    /\ now >= timer.due
    /\ UNCHANGED <<now, ticks, bcasts, agg, limits, workflow, evs>>
    /\ IF rejects
       THEN /\ timer' = cycleRejected(cycleBegins(timer))
            /\ UNCHANGED <<services, heap, calls, sweeps, returned>>
       ELSE \E k \in SweepIds :
               /\ ~sweeps[k].active
               /\ k <= limits.sweeps
               /\ k = Min({j \in SweepIds : ~sweeps[j].active})
               /\ services # <<>> => room(calls) > 0
               /\ timer' = cycleSweeps(cycleBegins(timer))
               /\ LET all == findAll(services)
                      list == [i \in 1..Len(all) |-> [id |-> heap[all[i]].id,
                                                      name |-> heap[all[i]].name]]
                  IN  proceedSweep(k, [Sweep(list) EXCEPT
                                          !.keys = [i \in 1..Len(services) |-> services[i].id],
                                          !.by = "timer"],
                                   heap, services, calls)

-----------------------------------------------------------------------------
(* Time passes, up to the next armed timer's deadline *)

\* the deadlines of the timers that are armed
Deadlines == {c.deadline : c \in {x \in BagToSet(calls) : x.phase = "fetch"}} \cup (IF timer.on THEN {timer.due} ELSE {})

Tick ==
    /\ ticks < limits.ticks
    /\ \A d \in Deadlines : d > now
    /\ now' = Min({now + TickMs} \cup Deadlines)
    /\ ticks' = ticks + 1
    /\ UNCHANGED <<services, heap, calls, sweeps, bcasts, returned, agg, limits, workflow, timer, evs>>

-----------------------------------------------------------------------------
(* The Workflow entity (domain/shared/types/index.ts).  A workflow is a    *)
(* record; currentStepIndex counts from 0 as in the code, so the current   *)
(* step is steps[currentStepIndex + 1] here.                               *)

\* a Date field: <<>> while it was never assigned, <<t>> once it was
NoDate == <<>>

\* a WorkflowStep: only the fields the entity writes
WorkflowStep(status) == [status |-> status, result |-> "undefined"]

NoWorkflow ==
    [made |-> FALSE, id |-> <<>>, name |-> <<>>, steps |-> <<>>, createdAt |-> NoDate,
     status |-> "created", currentStepIndex |-> 0,
     startedAt |-> NoDate, completedAt |-> NoDate, error |-> "undefined"]

\* new Workflow(props) at time t, for props the guards accept
newWorkflow(id, name, steps, t) ==
    [NoWorkflow EXCEPT !.made = TRUE, !.id = id, !.name = name, !.steps = steps,
                       !.createdAt = <<t>>, !.status = "created", !.currentStepIndex = 0]

\* get currentStep: undefined when the index is outside the array
hasCurrentStep(w) == w.currentStepIndex + 1 \in DOMAIN w.steps

start(w, t) == [w EXCEPT !.status = "running", !.startedAt = <<t>>]

fail(w, error, t) == [w EXCEPT !.status = "failed", !.error = error, !.completedAt = <<t>>]

completeCurrentStep(w, result, t) ==
    IF ~hasCurrentStep(w) THEN w
    ELSE LET done == [w EXCEPT !.steps[w.currentStepIndex + 1].status = "completed",
                               !.steps[w.currentStepIndex + 1].result = result]
         IN  IF w.currentStepIndex < Len(w.steps) - 1
             THEN [done EXCEPT !.currentStepIndex = @ + 1]
             ELSE [done EXCEPT !.status = "completed", !.completedAt = <<t>>]

failCurrentStep(w, error, t) ==
    IF ~hasCurrentStep(w) THEN w
    ELSE fail([w EXCEPT !.steps[w.currentStepIndex + 1].status = "failed"], error, t)

pause(w) == IF w.status = "running" THEN [w EXCEPT !.status = "paused"] ELSE w

resumeAnyway(w) == [w EXCEPT !.status = "running"]

resume(w) == IF w.status = "paused" THEN [w EXCEPT !.status = "running"] ELSE w

cancel(w, t) == [w EXCEPT !.status = "cancelled", !.completedAt = <<t>>]

-----------------------------------------------------------------------------
(* Specification *)

NoAgg == [total |-> 0, healthy |-> 0, unhealthy |-> 0, degraded |-> 0,
          checkAll |-> "none", aggregated |-> "none"]

\* The runs explored.  Each bounds the services in play, the outbound calls
\* in flight, the overlapping sweeps and the number of times time advances,
\* and names the operations invoked and the status codes the targets answer.
Limits(names, ops, codes, ncalls, nsweeps, nticks, nemits) ==
    [names |-> names, ops |-> ops, codes |-> codes,
     calls |-> ncalls, sweeps |-> nsweeps, ticks |-> nticks, emits |-> nemits]

AllOps == {"registerService", "deregisterService", "getService", "heartbeat",
           "checkServiceHealth", "checkAllServices", "getServiceHealth",
           "getAggregatedHealth", "proxy", "dispatchCommand", "broadcast"}

Scenarios ==
    { \* one service, registered under two names; one call at a time; time passes
      Limits({<<"a">>, <<"A", "!", " ">>}, AllOps, Codes, MaxCalls - 1, MaxSweeps - 1, MaxTicks, MaxEmits - 1),
      \* one service, every answer; one call at a time
      Limits({<<"a">>}, AllOps, {200, 299, 300, 399, 400, 499, 500}, MaxCalls - 1, MaxSweeps - 1, 0, MaxEmits - 1),
      \* one service, concurrent calls and overlapping sweeps
      Limits({<<"a">>}, AllOps, Codes, MaxCalls, MaxSweeps, 0, MaxEmits),
      \* one service, concurrent checks, proxy calls and heartbeats; time passes
      Limits({<<"a">>}, {"registerService", "heartbeat", "checkServiceHealth", "proxy"}, Codes, MaxCalls, 0, MaxTicks, MaxEmits),
      \* two services, one call at a time
      Limits({<<"a">>, <<"b">>}, AllOps, Codes, MaxCalls - 1, MaxSweeps - 1, 0, MaxEmits - 1),
      \* two services, broadcast legs in flight together
      Limits({<<"a">>, <<"b">>}, {"registerService", "deregisterService", "broadcast"}, Codes, MaxCalls, 0, 0, MaxEmits),
      \* two services, deregistered while a sweep is under way
      Limits({<<"a">>, <<"b">>}, {"registerService", "deregisterService", "checkAllServices"}, Codes, MaxCalls - 1, MaxSweeps - 1, 0, MaxEmits),
      \* one service, deregistered and registered again while checks are in
      \* flight; time passes
      Limits({<<"a">>}, {"registerService", "deregisterService", "checkServiceHealth"}, {500}, MaxCalls, 0, MaxTicks, MaxEmits) }

\* the requests of a run: the ones with its names, and the invalid ones
RequestsOf(l) == {r \in Requests : r.name \in l.names \/ ~ServiceValid(generateServiceId(r.name), r)}

\* the identifiers its callers pass
IdsOf(l) == {generateServiceId(n) : n \in l.names}

Init ==
    /\ limits \in Scenarios
    /\ now = 0
    /\ ticks = 0
    /\ services = <<>>
    /\ heap = [r \in Refs |-> FreeObj]
    /\ calls = EmptyBag
    /\ sweeps = [k \in SweepIds |-> NoSweep]
    /\ bcasts = [b \in BcastIds |-> NoBcast]
    /\ returned = Nothing
    /\ timer = NoTimer
    /\ agg = NoAgg
    /\ workflow = NoWorkflow
    /\ recentEvents = <<>>
    /\ log = <<>>
    /\ handlers = [t \in EventType |-> <<>>]
    /\ allHandlers = <<>>
    /\ emits = [i \in EmitIds |-> NoEmit]

\* the caller takes what the operation gave it
Deliver ==
    /\ returned # Nothing
    /\ returned' = Nothing
    /\ UNCHANGED <<now, ticks, services, heap, calls, sweeps, bcasts, agg, limits, workflow, timer, evs>>

\* nothing is waiting to be delivered
Running == returned = Nothing

\* a caller invokes op, one of the operations of the run
Calling(op) == Running /\ op \in limits.ops

Next ==
    \/ Deliver
    \/ Calling("registerService") /\ \E req \in RequestsOf(limits) : RegisterExisting(req)
    \/ Calling("registerService") /\ \E req \in RequestsOf(limits) : RegisterInvalid(req)
    \/ Calling("registerService") /\ \E req \in RequestsOf(limits) : RegisterNew(req)
    \/ Calling("deregisterService") /\ \E id \in IdsOf(limits) : DeregisterService(id)
    \/ Calling("getService") /\ \E id \in IdsOf(limits) : GetService(id)
    \/ Calling("heartbeat") /\ \E id \in IdsOf(limits) : Heartbeat(id)
    \/ Calling("checkServiceHealth") /\ \E id \in IdsOf(limits) : CheckServiceHealth(id)
    \/ Calling("checkAllServices") /\ CheckAllServices
    \/ Calling("getServiceHealth") /\ \E id \in IdsOf(limits) : GetServiceHealth(id)
    \/ Calling("getAggregatedHealth") /\ GetAggregatedHealth
    \/ Calling("proxy") /\ \E id \in IdsOf(limits), t \in {0, 5000} : Proxy(id, t)
    \/ Calling("dispatchCommand") /\ \E id \in IdsOf(limits) : DispatchCommand(id)
    \/ Calling("broadcast") /\ \E type \in {"agent", "api"} : Broadcast(type)
    \/ Running /\ \E c \in BagToSet(calls), code \in limits.codes : HealthRespondsNotOk(c, code)
    \/ Running /\ \E c \in BagToSet(calls), code \in limits.codes : HealthRespondsOk(c, code)
    \/ Running /\ \E c \in BagToSet(calls), parsed \in BOOLEAN : HealthBody(c, parsed)
    \/ Running /\ \E c \in BagToSet(calls) : HealthFetchFails(c)
    \/ Running /\ \E c \in BagToSet(calls) : HealthTimeout(c)
    \/ Running /\ \E c \in BagToSet(calls), code \in limits.codes : ProxyResponds(c, code)
    \/ Running /\ \E c \in BagToSet(calls) : ProxyBody(c)
    \/ Running /\ \E c \in BagToSet(calls) : ProxyBodyFails(c)
    \/ Running /\ \E c \in BagToSet(calls) : ProxyFetchFails(c)
    \/ Running /\ \E c \in BagToSet(calls) : ProxyTimeout(c)
    \/ Running /\ Tick

Spec == Init /\ [][Next]_vars

-----------------------------------------------------------------------------
(* The periodic check on its own: the timer is started and stopped, its    *)
(* cycles sweep the Directory a service registers in, and the repository   *)
(* may fail a sweep                                                        *)

InitTimer ==
    /\ limits \in { Limits({<<"a">>}, {"registerService", "startHealthChecks", "stopHealthChecks", "findAll rejects"}, Codes, MaxCalls - 1, MaxSweeps - 1, MaxCycles, MaxEmits - 2) }
    /\ now = 0
    /\ ticks = 0
    /\ services = <<>>
    /\ heap = [r \in Refs |-> FreeObj]
    /\ calls = EmptyBag
    /\ sweeps = [k \in SweepIds |-> NoSweep]
    /\ bcasts = [b \in BcastIds |-> NoBcast]
    /\ returned = Nothing
    /\ timer = NoTimer
    /\ agg = NoAgg
    /\ workflow = NoWorkflow
    /\ recentEvents = <<>>
    /\ log = <<>>
    /\ handlers = [t \in EventType |-> <<>>]
    /\ allHandlers = <<>>
    /\ emits = [i \in EmitIds |-> NoEmit]

NextTimer ==
    \/ Deliver
    \/ Calling("registerService") /\ \E req \in RequestsOf(limits) : RegisterNew(req)
    \/ Calling("startHealthChecks") /\ \E ms \in {HEALTH_CHECK_INTERVAL_MS, 2 * HEALTH_CHECK_INTERVAL_MS} : StartHealthChecks(ms)
    \/ Calling("stopHealthChecks") /\ StopHealthChecks
    \/ Running /\ IntervalFires(FALSE)
    \/ Calling("findAll rejects") /\ IntervalFires(TRUE)
    \/ Running /\ \E c \in BagToSet(calls), code \in limits.codes : HealthRespondsNotOk(c, code)
    \/ Running /\ \E c \in BagToSet(calls), code \in limits.codes : HealthRespondsOk(c, code)
    \/ Running /\ \E c \in BagToSet(calls), parsed \in BOOLEAN : HealthBody(c, parsed)
    \/ Running /\ \E c \in BagToSet(calls) : HealthFetchFails(c)
    \/ Running /\ \E c \in BagToSet(calls) : HealthTimeout(c)
    \/ Running /\ Tick

SpecTimer == InitTimer /\ [][NextTimer]_vars

-----------------------------------------------------------------------------
(* generateServiceId on its own: every name of up to MaxNameLen characters *)
(* of a small alphabet: a lower-case letter, an upper-case letter, a       *)
(* digit, a dash, a space and a punctuation mark                           *)

InitSlug ==
    /\ limits \in { Limits({}, {"generateServiceId"}, {}, 0, 0, 0, 0) }
    /\ now = 0
    /\ ticks = 0
    /\ services = <<>>
    /\ heap = [r \in Refs |-> FreeObj]
    /\ calls = EmptyBag
    /\ sweeps = [k \in SweepIds |-> NoSweep]
    /\ bcasts = [b \in BcastIds |-> NoBcast]
    /\ returned = Nothing
    /\ timer = NoTimer
    /\ agg = NoAgg
    /\ workflow = NoWorkflow
    /\ recentEvents = <<>>
    /\ log = <<>>
    /\ handlers = [t \in EventType |-> <<>>]
    /\ allHandlers = <<>>
    /\ emits = [i \in EmitIds |-> NoEmit]

\* this.generateServiceId(request.name)
DeriveId(name) ==
    /\ returned' = Returned("generateServiceId", generateServiceId(name),
                            [NoArg EXCEPT !.name = name], "", 0)
    /\ UNCHANGED <<now, ticks, services, heap, calls, sweeps, bcasts, agg, limits, workflow, timer, evs>>

NextSlug ==
    \/ Deliver
    \/ Calling("generateServiceId") /\ \E name \in (UNION {[1..n -> {"a", "A", "1", "-", " ", "!"}] : n \in 0..MaxNameLen}) : DeriveId(name)

SpecSlug == InitSlug /\ [][NextSlug]_vars

-----------------------------------------------------------------------------
(* registerService one await at a time.  Every method of the repository is *)
(* async: the lookup runs when registerService is called, and what follows *)
(* "await findById" runs later, after whatever else was called in the same *)
(* turn.  A registerService call under way is a record among the calls,    *)
(* holding the object it found or created; while its initial check awaits  *)
(* fetch, the check is a second record, holding the object it looked up.   *)

Registration(id, ref, phase, ix) ==
    [Call("register", id, ref, now, 0, 0, Parent("registerService", ix)) EXCEPT !.phase = phase]

Registering(cs) == {c \in BagToSet(cs) : c.kind = "register"}

InitRegister ==
    /\ limits = Limits({<<"a">>, <<"A", "!", " ">>}, {"registerService"},
                       {code \in Codes : ~ok(code)}, MaxCalls, 0, MaxTicks, MaxEmits)
    /\ now = 0
    /\ ticks = 0
    /\ services = <<>>
    /\ heap = [r \in Refs |-> FreeObj]
    /\ calls = EmptyBag
    /\ sweeps = [k \in SweepIds |-> NoSweep]
    /\ bcasts = [b \in BcastIds |-> NoBcast]
    /\ returned = Nothing
    /\ timer = NoTimer
    /\ agg = NoAgg
    /\ workflow = NoWorkflow
    /\ recentEvents = <<>>
    /\ log = <<>>
    /\ handlers = [t \in EventType |-> <<>>]
    /\ allHandlers = <<>>
    /\ emits = [i \in EmitIds |-> NoEmit]

\* registerService is called: generateServiceId and repository.findById run,
\* and the call awaits.  When the lookup gave null the Service the call will
\* construct is made here, from the same request at the same clock reading:
\* until it is saved it is in this call's hands alone.
RegisterCalled(req) ==
    LET id == generateServiceId(req.name)
        existing == findById(services, id)
        free == {ix \in (1..MaxCalls) : \A c \in Registering(calls) : c.parent.ix # ix}
    IN  /\ free # {}
        /\ IF existing # 0
           THEN commit(heap, services,
                       issue(calls, Registration(id, existing, "found", Min(free))))
           ELSE /\ ServiceValid(id, req)
                /\ FreeRefs # {}
                /\ commit([heap EXCEPT ![Min(FreeRefs)] = Service(id, req, now)], services,
                          issue(calls, Registration(id, Min(FreeRefs), "created", Min(free))))
        /\ UNCHANGED <<now, ticks, sweeps, bcasts, returned, agg, limits, workflow, timer, evs>>

\* after "await findById": existing.touch() and save(existing), or
\* save(service); the call awaits the save
RegisterResumes(c) ==
    /\ c \in Registering(calls)
    /\ c.phase \in {"found", "created"}
    /\ commit(IF c.phase = "found" THEN [heap EXCEPT ![c.ref] = touch(@, now)] ELSE heap,
              save(services, c.sid, c.ref),
              issue(settle(calls, c),
                    [c EXCEPT !.phase = IF c.phase = "found" THEN "touched" ELSE "saved"]))
    /\ UNCHANGED <<now, ticks, sweeps, bcasts, returned, agg, limits, workflow, timer, evs>>

\* after "await save(service)": checkServiceHealth(serviceId) looks the id
\* up and starts its fetch on the object it finds
RegisterChecks(c) ==
    /\ c \in Registering(calls)
    /\ c.phase = "saved"
    /\ findById(services, c.sid) # 0
    /\ commit(heap, services,
              issue(issue(settle(calls, c), [c EXCEPT !.phase = "awaits check"]),
                    Call("health", c.sid, findById(services, c.sid), now, 0,
                         HEALTH_CHECK_TIMEOUT_MS, Parent("registerService", c.parent.ix))))
    /\ UNCHANGED <<now, ticks, sweeps, bcasts, returned, agg, limits, workflow, timer, evs>>

\* the initial check from "service.updateHealthStatus(result)" to its save;
\* registerService will go on when the check has returned
finishInitialCheck(c, result) ==
    LET r == CHOOSE x \in Registering(calls) : x.parent.ix = c.parent.ix
    IN  /\ commit([heap EXCEPT ![c.ref] = updateHealthStatus(@, result, now)],
                  save(services, c.sid, c.ref),
                  issue(settle(settle(calls, c), r), [r EXCEPT !.phase = "checked"]))
        /\ UNCHANGED <<now, ticks, sweeps, bcasts, returned, agg, limits, workflow, timer, evs>>

\* the probe of the initial check is answered, not ok
RegisterProbed(c, code) ==
    /\ c \in BagToSet(calls) /\ c.kind = "health" /\ c.phase = "fetch"
    /\ ~ok(code)
    /\ finishInitialCheck(c, HealthCheckResult(statusOfResponse(code), now, now - c.start,
                                               detailsOfResponse(code)))

\* the fetch of the initial check rejects
RegisterProbeFails(c) ==
    /\ c \in BagToSet(calls) /\ c.kind = "health" /\ c.phase = "fetch"
    /\ finishInitialCheck(c, failedCheck(c.start, "fetch failed"))

\* after "await checkServiceHealth": emit the registration event, await it
RegisterEmits(c) ==
    /\ c \in Registering(calls)
    /\ c.phase = "checked"
    /\ Len(log) < limits.emits
    /\ emitUnheard(DomainEvent("service.registered", c.sid, now,
                               [name |-> heap[c.ref].name, type |-> heap[c.ref].type]))
    /\ commit(heap, services, issue(settle(calls, c), [c EXCEPT !.phase = "emitted"]))
    /\ UNCHANGED <<now, ticks, sweeps, bcasts, returned, agg, limits, workflow, timer>>

\* after the last await: return existing.toSnapshot() or service.toSnapshot()
RegisterReturns(c) ==
    /\ c \in Registering(calls)
    /\ c.phase \in {"touched", "emitted"}
    /\ commit(heap, services, settle(calls, c))
    /\ returned' = Returned("registerService", c.sid,
                            [NoArg EXCEPT !.name = heap[c.ref].name, !.type = heap[c.ref].type,
                                          !.kind = c.phase],
                            "", toSnapshot(heap[c.ref]))
    /\ UNCHANGED <<now, ticks, sweeps, bcasts, agg, limits, workflow, timer, evs>>

NextRegister ==
    \/ Deliver
    \/ Calling("registerService") /\ \E req \in RequestsOf(limits) : RegisterCalled(req)
    \/ Running /\ \E c \in BagToSet(calls) : RegisterResumes(c)
    \/ Running /\ \E c \in BagToSet(calls) : RegisterChecks(c)
    \/ Running /\ \E c \in BagToSet(calls), code \in limits.codes : RegisterProbed(c, code)
    \/ Running /\ \E c \in BagToSet(calls) : RegisterProbeFails(c)
    \/ Running /\ \E c \in BagToSet(calls) : RegisterEmits(c)
    \/ Running /\ \E c \in BagToSet(calls) : RegisterReturns(c)
    \/ Running /\ (\A c \in Registering(calls) : c.phase = "awaits check") /\ Tick

SpecRegister == InitRegister /\ [][NextRegister]_vars

-----------------------------------------------------------------------------
(* The Workflow entity on its own: one workflow is constructed from props  *)
(* of up to MaxSteps steps, and its six public operations are called in    *)
(* any order while time may advance between them.                          *)

InitWorkflow ==
    /\ limits = Limits({}, {"Workflow", "start", "completeCurrentStep", "failCurrentStep",
                             "pause", "resume", "cancel"}, {}, 0, 0, MaxTicks, 0)
    /\ now = 0
    /\ ticks = 0
    /\ services = <<>>
    /\ heap = [r \in Refs |-> FreeObj]
    /\ calls = EmptyBag
    /\ sweeps = [k \in SweepIds |-> NoSweep]
    /\ bcasts = [b \in BcastIds |-> NoBcast]
    /\ returned = Nothing
    /\ timer = NoTimer
    /\ agg = NoAgg
    /\ workflow = NoWorkflow
    /\ recentEvents = <<>>
    /\ log = <<>>
    /\ handlers = [t \in EventType |-> <<>>]
    /\ allHandlers = <<>>
    /\ emits = [i \in EmitIds |-> NoEmit]

\* what a workflow operation gave its caller: the status and the index it
\* left, or the error it threw
WorkflowReturned(op, w, error) ==
    Returned(op, <<>>, [NoArg EXCEPT !.kind = w.status], error, w.currentStepIndex)

\* new Workflow(props)
NewWorkflow(id, name, steps) ==
    /\ ~workflow.made
    /\ IF stringNotEmpty(id) /\ stringNotEmpty(name) /\ Len(steps) > 0
       THEN /\ workflow' = newWorkflow(id, name, steps, now)
            /\ returned' = WorkflowReturned("Workflow", workflow', "")
       ELSE /\ returned' = WorkflowReturned("Workflow", workflow, "VALIDATION_ERROR")
            /\ UNCHANGED workflow
    /\ UNCHANGED <<now, ticks, services, heap, calls, sweeps, bcasts, agg, limits, timer, evs>>

\* workflow.start()
Start ==
    /\ workflow.made
    /\ IF workflow.status = "created"
       THEN /\ workflow' = start(workflow, now)
            /\ returned' = WorkflowReturned("start", workflow', "")
       ELSE /\ returned' = WorkflowReturned("start", workflow, "Error")
            /\ UNCHANGED workflow
    /\ UNCHANGED <<now, ticks, services, heap, calls, sweeps, bcasts, agg, limits, timer, evs>>

\* workflow.completeCurrentStep(result)
CompleteCurrentStep(result) ==
    /\ workflow.made
    /\ workflow' = completeCurrentStep(workflow, result, now)
    /\ returned' = WorkflowReturned("completeCurrentStep", workflow', "")
    /\ UNCHANGED <<now, ticks, services, heap, calls, sweeps, bcasts, agg, limits, timer, evs>>

\* workflow.failCurrentStep(error)
FailCurrentStep(error) ==
    /\ workflow.made
    /\ workflow' = failCurrentStep(workflow, error, now)
    /\ returned' = WorkflowReturned("failCurrentStep", workflow', "")
    /\ UNCHANGED <<now, ticks, services, heap, calls, sweeps, bcasts, agg, limits, timer, evs>>

\* workflow.pause()
Pause ==
    /\ workflow.made
    /\ workflow' = pause(workflow)
    /\ returned' = WorkflowReturned("pause", workflow', "")
    /\ UNCHANGED <<now, ticks, services, heap, calls, sweeps, bcasts, agg, limits, timer, evs>>

\* workflow.resume()
Resume ==
    /\ workflow.made
    /\ workflow' = resume(workflow)
    /\ returned' = WorkflowReturned("resume", workflow', "")
    /\ UNCHANGED <<now, ticks, services, heap, calls, sweeps, bcasts, agg, limits, timer, evs>>

\* workflow.cancel()
Cancel ==
    /\ workflow.made
    /\ workflow' = cancel(workflow, now)
    /\ returned' = WorkflowReturned("cancel", workflow', "")
    /\ UNCHANGED <<now, ticks, services, heap, calls, sweeps, bcasts, agg, limits, timer, evs>>

NextWorkflow ==
    \/ Deliver
    \/ Calling("Workflow") /\ \E id \in {<<>>, <<" ">>, <<"w">>}, name \in {<<>>, <<" ">>, <<"n">>}, steps \in (UNION {[1..n -> {WorkflowStep(s) : s \in {"pending", "in_progress", "completed", "failed", "timeout"}}] : n \in 0..MaxSteps}) :
                                  NewWorkflow(id, name, steps)
    \/ Calling("start") /\ Start
    \/ Calling("completeCurrentStep") /\ \E result \in {"undefined", "r"} : CompleteCurrentStep(result)
    \/ Calling("failCurrentStep") /\ \E error \in {"e"} : FailCurrentStep(error)
    \/ Calling("pause") /\ Pause
    \/ Calling("resume") /\ Resume
    \/ Calling("cancel") /\ Cancel
    \/ Running /\ Tick

SpecWorkflow == InitWorkflow /\ [][NextWorkflow]_vars

-----------------------------------------------------------------------------
(* The overall status derivations on their own: every tuple of counts a    *)
(* Directory of up to 4 * MaxCount entries can give.                       *)

InitAgg ==
    /\ limits = Limits({}, {}, {}, 0, 0, 0, 0)
    /\ workflow = NoWorkflow
    /\ now = 0
    /\ ticks = 0
    /\ services = <<>>
    /\ heap = [r \in Refs |-> FreeObj]
    /\ calls = EmptyBag
    /\ sweeps = [k \in SweepIds |-> NoSweep]
    /\ bcasts = [b \in BcastIds |-> NoBcast]
    /\ recentEvents = <<>>
    /\ log = <<>>
    /\ handlers = [t \in EventType |-> <<>>]
    /\ allHandlers = <<>>
    /\ emits = [i \in EmitIds |-> NoEmit]
    /\ returned = Nothing
    /\ timer = NoTimer
    /\ \E h \in 0..MaxCount, u \in 0..MaxCount, d \in 0..MaxCount, k \in 0..MaxCount :
          agg = [NoAgg EXCEPT !.total = h + u + d + k, !.healthy = h,
                              !.unhealthy = u, !.degraded = d]

DeriveOverall ==
    /\ agg.checkAll = "none"
    /\ agg' = [agg EXCEPT
                  !.checkAll = overallStatusCheckAll(agg.total, agg.healthy,
                                                     agg.unhealthy, agg.degraded),
                  !.aggregated = overallStatusAggregated(agg.total, agg.healthy,
                                                         agg.unhealthy, agg.degraded)]
    /\ UNCHANGED <<now, ticks, services, heap, calls, sweeps, bcasts, returned, limits, workflow, timer, evs>>

NextAgg == DeriveOverall

SpecAgg == InitAgg /\ [][NextAgg]_vars

-----------------------------------------------------------------------------
(* The EventService on its own, with subscribers: a long run of emits, and *)
(* short runs in which handlers subscribe, unsubscribe and throw.          *)

InitEvents ==
    /\ limits \in
         { Limits({}, {"emit", "getRecentEvents"}, {}, 0, 0, 0, MaxHistory),
           Limits({}, {"emit", "subscribe", "unsubscribe", "subscribeAll"}, {}, 0, 0, 0, MaxHeard),
           \* emits that start while another awaits an all-events handler
           Limits({}, {"emit", "subscribeAll"}, {}, 0, 0, 0, MaxHeard + 1) }
    /\ now = 0
    /\ ticks = 0
    /\ services = <<>>
    /\ heap = [r \in Refs |-> FreeObj]
    /\ calls = EmptyBag
    /\ sweeps = [k \in SweepIds |-> NoSweep]
    /\ bcasts = [b \in BcastIds |-> NoBcast]
    /\ returned = Nothing
    /\ timer = NoTimer
    /\ agg = NoAgg
    /\ workflow = NoWorkflow
    /\ recentEvents = <<>>
    /\ log = <<>>
    /\ handlers = [t \in EventType |-> <<>>]
    /\ allHandlers = <<>>
    /\ emits = [i \in EmitIds |-> NoEmit]

NextEvents ==
    \/ Deliver
    \/ Calling("emit") /\ \E type \in (IF "subscribe" \in limits.ops
                                             THEN {"service.registered", "command.failed"}
                                             ELSE {"service.registered"}), o \in {"returns", "throws"} : EmitEvent(type, o)
    \/ Running /\ \E i \in EmitIds, o \in {"returns", "throws"} : EmitResumes(i, o)
    \/ Calling("subscribe") /\ \E type \in {"service.registered"}, h \in Handlers : Subscribe(type, h)
    \/ Calling("unsubscribe") /\ \E type \in {"service.registered"}, h \in Handlers : Unsubscribe(type, h)
    \/ Calling("subscribeAll") /\ \E h \in Handlers : SubscribeAll(h)
    \/ Calling("getRecentEvents") /\ \E limit \in {0, 1, 50, 100, 101} : GetRecentEvents(limit)

SpecEvents == InitEvents /\ [][NextEvents]_vars

-----------------------------------------------------------------------------
(* Properties *)

\* the status stored under id, "absent" when the Directory has no entry
statusAt(m, h, id) ==
    IF \E i \in 1..Len(m) : m[i].id = id
    THEN h[(CHOOSE e \in Range(m) : e.id = id).ref].status
    ELSE "absent"

\* how many of the calls in flight are in the set S
inFlight(cs, S) == BagCardinality([c \in S \cap BagToSet(cs) |-> cs[c]])

\* the calls proxy has in flight towards id, on behalf of the operations ops
proxyCalls(cs, id, ops) ==
    {c \in BagToSet(cs) : c.kind = "proxy" /\ c.sid = id /\ c.parent.op \in ops}

\* C1: a proxy request for an id the Directory does not hold fails with
\* NOT_FOUND; for an entry whose status at lookup is starting, unhealthy,
\* stopping or unknown it fails with SERVICE_UNAVAILABLE; a call to the target
\* goes out only when the status at lookup is healthy or degraded.
C1_AvailabilityGate ==
    [][/\ \A st \in ServiceStatus :
             isAvailable([status |-> st]) <=> st \in {"healthy", "degraded"}
       /\ \A id \in IdsOf(limits) :
             LET st == statusAt(services, heap, id)
                 ops == {"proxy", "dispatchCommand"}
                 refused == /\ returned = Nothing
                            /\ returned'.op \in ops
                            /\ returned'.sid = id
                            /\ returned'.arg.kind = ""
                 issued == inFlight(calls', proxyCalls(calls', id, ops))
                              > inFlight(calls, proxyCalls(calls, id, ops))
             IN  /\ issued => st \in {"healthy", "degraded"}
                 /\ refused => /\ st \notin {"healthy", "degraded"}
                               /\ returned'.error =
                                     IF st = "absent" THEN "NOT_FOUND"
                                     ELSE "SERVICE_UNAVAILABLE"
                               /\ calls' = calls]_vars

\* a proxy request was refused because the entry was unhealthy
C1_Witness ==
    /\ returned.op = "proxy"
    /\ returned.error = "SERVICE_UNAVAILABLE"
    /\ statusAt(services, heap, returned.sid) = "unhealthy"

\* C2: once deregisterService(id) has completed the Directory holds no entry
\* for id until a later registerService derives the same id: an entry for an
\* absent id appears only in a step of registerService for that id.
C2_StaysDeregistered ==
    [][\A id \in IdsOf(limits) :
          LET registering(cs) ==
                  {c \in BagToSet(cs) : c.parent.op = "registerService" /\ c.sid = id}
          IN  (statusAt(services, heap, id) = "absent"
                  /\ statusAt(services', heap', id) # "absent")
              => inFlight(calls', registering(calls')) > inFlight(calls, registering(calls))]_vars

\* the legs of broadcast ix still in flight, by target
pendingLegs(cs, ix) ==
    {c.sid : c \in {x \in BagToSet(cs) : x.parent.op = "broadcast" /\ x.parent.ix = ix}}

\* the results Map of broadcast ix after a step: the one it goes on with, or
\* the one it has just returned
resultsAfter(ix) ==
    IF bcasts'[ix].active THEN bcasts'[ix].results ELSE returned'.value.results

eligible(m, h, type) ==
    {m[i].id : i \in {j \in 1..Len(m) : /\ h[m[j].ref].type = type
                                        /\ h[m[j].ref].status \in {"healthy", "degraded"}}}

\* C4: the targets of a broadcast are exactly the entries of the type whose
\* status is healthy or degraded when they are selected, one leg each; until
\* it returns every target has either its entry or its leg in flight; it
\* returns only when no leg is in flight, with exactly one entry per target.
C4_BroadcastTargets ==
    [][\A ix \in BcastIds :
          /\ bcasts[ix].active =>
                /\ DOMAIN bcasts[ix].results \cup pendingLegs(calls, ix) = bcasts[ix].targets
                /\ DOMAIN bcasts[ix].results \cap pendingLegs(calls, ix) = {}
                /\ pendingLegs(calls, ix) # {}
          /\ (~bcasts[ix].active /\ bcasts'[ix].active) =>
                /\ bcasts'[ix].targets = eligible(services, heap, bcasts'[ix].type)
                /\ bcasts'[ix].results = <<>>
                /\ pendingLegs(calls', ix) = bcasts'[ix].targets
                /\ BagCardinality(calls') = BagCardinality(calls)
                                               + Cardinality(bcasts'[ix].targets)
          /\ (bcasts[ix].active /\ ~bcasts'[ix].active) =>
                /\ returned'.op = "broadcast"
                /\ returned'.value.type = bcasts[ix].type
                /\ DOMAIN returned'.value.results = bcasts[ix].targets
                /\ pendingLegs(calls', ix) = {}
          /\ (returned = Nothing /\ returned'.op = "broadcast" /\ bcasts' = bcasts) =>
                /\ eligible(services, heap, returned'.value.type) = {}
                /\ returned'.value.results = <<>>]_vars

\* a broadcast has returned an entry for one of two stored services: the
\* other was not eligible
C4_Witness ==
    /\ returned.op = "broadcast"
    /\ Cardinality(DOMAIN returned.value.results) = 1
    /\ Len(services) = 2

\* C5: registerService with a name whose identifier is already stored leaves
\* the Directory and every field of the stored entry as they were, except
\* lastSeenAt, which becomes the time of the call, whatever the request
\* carries; it returns the snapshot of that entry.
C5_RegisterExisting ==
    [][(/\ returned = Nothing
        /\ returned'.op = "registerService"
        /\ returned'.error = ""
        /\ calls' = calls)
       => LET id == returned'.sid
              ref == (CHOOSE e \in Range(services) : e.id = id).ref
          IN  /\ statusAt(services, heap, id) # "absent"
              /\ services' = services
              /\ \A r \in Refs \ {ref} : heap'[r] = heap[r]
              /\ [heap'[ref] EXCEPT !.lastSeenAt = heap[ref].lastSeenAt] = heap[ref]
              /\ heap'[ref].lastSeenAt = now
              /\ returned'.value = heap'[ref]]_vars

\* a request with another name and another type has returned the stored
\* entry, which has been checked since it was registered
C5_Witness ==
    /\ returned.op = "registerService"
    /\ returned.error = ""
    /\ returned.arg.name # returned.value.name
    /\ returned.arg.type # returned.value.type
    /\ returned.value.status # "starting"

\* C6: a check of a stored service yields healthy for a 2xx answer, unhealthy
\* for a status of 500 or more, degraded for any other answer, and unhealthy
\* when the probe times out or fails on the network.
C6_CheckMapping ==
    (returned.op = "checkServiceHealth" /\ returned.arg.kind # "absent") =>
        LET code == returned.arg.code
        IN  /\ returned.arg.kind \in {"response", "timeout", "network"}
            /\ returned.value.status =
                  IF returned.arg.kind # "response" THEN "unhealthy"
                  ELSE IF code \in 200..299 THEN "healthy"
                  ELSE IF code >= 500 THEN "unhealthy"
                  ELSE "degraded"

\* a check answered with 499 has returned degraded
C6_Witness ==
    /\ returned.op = "checkServiceHealth"
    /\ returned.arg.kind = "response"
    /\ returned.arg.code = 499
    /\ returned.value.status = "degraded"

\* C7: for counts h healthy, d degraded, u unhealthy of N entries, both
\* checkAllServices and getAggregatedHealth report unhealthy iff u = N > 0,
\* otherwise degraded iff u > 0 or d > 0, otherwise healthy iff h > 0,
\* otherwise unknown.
C7_OverallStatus ==
    agg.checkAll # "none" =>
        LET expected ==
                IF agg.unhealthy = agg.total /\ agg.total > 0 THEN "unhealthy"
                ELSE IF agg.unhealthy > 0 \/ agg.degraded > 0 THEN "degraded"
                ELSE IF agg.healthy > 0 THEN "healthy"
                ELSE "unknown"
        IN  agg.checkAll = expected /\ agg.aggregated = expected

\* every entry of a Directory of several is unhealthy
C7_Witness ==
    /\ agg.checkAll = "unhealthy"
    /\ agg.aggregated = "unhealthy"
    /\ agg.total > 1

\* C8: no stored entry is torn: one with a cached health result has that
\* result's status, one without has status starting.
C8_NoTornEntry ==
    \A i \in 1..Len(services) :
        LET svc == heap[services[i].ref]
        IN  /\ svc.alloc
            /\ svc.status = IF svc.lastHealthCheck.status = "none" THEN "starting"
                            ELSE svc.lastHealthCheck.status

\* two sweeps overlap, both checking an entry that has a cached result
C8_Witness ==
    /\ \A k \in SweepIds : sweeps[k].active
    /\ \E i \in 1..Len(services) :
          /\ heap[services[i].ref].lastHealthCheck.status # "none"
          /\ inFlight(calls, {c \in BagToSet(calls) : c.sid = services[i].id}) > 1

\* C9: a proxy call whose target does not respond is in flight no later than
\* its deadline, which is the request's timeout, or the default when none is
\* given, after its start; the timer firing fails it with GATEWAY_TIMEOUT.
C9_ProxyTimeout ==
    /\ \A c \in BagToSet(calls) :
          c.kind = "proxy" =>
              /\ c.deadline = c.start + (IF c.timeout = 0 THEN 30000 ELSE c.timeout)
              /\ c.phase = "fetch" => now <= c.deadline
    /\ returned.arg.kind = "timeout" /\ returned.op \in {"proxy", "dispatchCommand"}
          => returned.error = "GATEWAY_TIMEOUT"

\* a proxy request that gave no timeout has failed with GATEWAY_TIMEOUT
C9_Witness ==
    /\ returned.op = "proxy"
    /\ returned.error = "GATEWAY_TIMEOUT"
    /\ returned.arg.timeout = 0
    /\ now = 30000

\* C10: no outbound call of checkServiceHealth or proxy is in flight after
\* its deadline: one whose response, headers and body, has not been delivered
\* by then has been aborted.
C10_SettlesByDeadline ==
    \A c \in BagToSet(calls) : now <= c.deadline

\* C11: the event history holds at most 100 events: the min(n, 100) most
\* recently emitted of the n emitted so far, newest first.
C11_RecentEvents ==
    /\ Len(recentEvents) = IF Len(log) < 100 THEN Len(log) ELSE 100
    /\ \A i \in 1..Len(recentEvents) : recentEvents[i] = log[Len(log) + 1 - i]

\* 150 events have been emitted: the history is the last 100, the first 50
\* are gone
C11_Witness ==
    /\ Len(log) = 150
    /\ Len(recentEvents) = 100
    /\ recentEvents[1] = log[150]
    /\ recentEvents[100] = log[51]

\* C12: when emit returns it has invoked every handler that was subscribed
\* to the event's type, and every all-events handler, when it started (one
\* unsubscribed in the meantime excepted), whichever of them threw; and it
\* returns without an error.
C12_HandlerIsolation ==
    returned.op = "emit" =>
        LET r == returned.value
            called(stage) == {r.invoked[i].handler :
                                 i \in {j \in 1..Len(r.invoked) : r.invoked[j].stage = stage}}
        IN  /\ returned.error = ""
            /\ Range(r.typeOrder) \ r.removed \subseteq called("type")
            /\ Range(r.allOrder) \subseteq called("all")

\* a handler of the event's type threw, and the handlers after it, of the
\* type and of all events, were invoked
C12_Witness ==
    /\ returned.op = "emit"
    /\ Len(returned.value.invoked) = 3
    /\ returned.value.invoked[1].outcome = "throws"
    /\ returned.value.invoked[1].stage = "type"
    /\ returned.value.invoked[2].stage = "type"
    /\ returned.value.invoked[3].stage = "all"

\* the place of handler h in a subscription order
placeIn(order, h) == CHOOSE i \in 1..Len(order) : order[i] = h

\* C13: within one emit the handlers of the event's type are invoked first,
\* in the order they were subscribed, then the all-events handlers, in the
\* order they were subscribed: no all-events handler is invoked before a
\* handler of the type.
C13_InvocationOrder ==
    returned.op = "emit" =>
        LET r == returned.value
            inv == r.invoked
            inOrder(stage, order, left) ==
                \A i, j \in 1..Len(inv) :
                    /\ i < j
                    /\ inv[i].stage = stage /\ inv[j].stage = stage
                    /\ {inv[i].handler, inv[j].handler} \subseteq Range(order) \ left
                    => placeIn(order, inv[i].handler) < placeIn(order, inv[j].handler)
        IN  /\ \A i, j \in 1..Len(inv) :
                   i < j => ~(inv[i].stage = "all" /\ inv[j].stage = "type")
            /\ inOrder("type", r.typeOrder, r.removed)
            /\ inOrder("all", r.allOrder, {})

\* two handlers of the type and two all-events handlers, subscribed in
\* opposite orders, have been invoked by one emit
C13_Witness ==
    /\ returned.op = "emit"
    /\ returned.value.typeOrder = <<"h1", "h2">>
    /\ returned.value.allOrder = <<"h2", "h1">>
    /\ Len(returned.value.invoked) = 4
    /\ returned.value.removed = {}

\* the sweep that has returned: the Directory's keys when it started, what
\* each of its checks met, and its summary
sweepReturned == returned.op = "checkAllServices"

\* C14 as stated: checkAllServices performs one active check for every entry
\* that was in the Directory when the sweep started.
C14_EveryEntryChecked ==
    sweepReturned => \A i \in 1..Len(returned.arg.probes) : returned.arg.probes[i] # "absent"

\* C14: checkAllServices returns, without an error, a summary with one detail
\* record, in order, per entry that was in the Directory when the sweep
\* started; each entry was checked once, a check that failed (network error
\* or timeout) is recorded as unhealthy and the sweep went on; the only
\* entries not actively checked are those deregistered since the sweep
\* started, recorded as unknown.
C14_SweepCoversSnapshot ==
    sweepReturned =>
        LET keys == returned.arg.keys
            probes == returned.arg.probes
            details == returned.value.details
        IN  /\ returned.error = ""
            /\ returned.value.services.total = Len(keys)
            /\ Len(details) = Len(keys)
            /\ Len(probes) = Len(keys)
            /\ \A i \in 1..Len(keys) :
                  /\ details[i].serviceId = keys[i]
                  /\ probes[i] \in {"response", "network", "timeout", "absent"}
                  /\ probes[i] \in {"network", "timeout"} => details[i].status = "unhealthy"
                  /\ probes[i] = "absent" =>
                        /\ details[i].status = "unknown"
                        /\ \E j \in 1..Len(log) :
                              /\ log[j].type = "service.deregistered"
                              /\ log[j].serviceId = keys[i]

\* a sweep over two entries whose first check failed and whose second got
\* a response
C14_Witness ==
    /\ sweepReturned
    /\ Len(returned.arg.keys) = 2
    /\ returned.arg.probes[1] \in {"network", "timeout"}
    /\ returned.arg.probes[2] = "response"
    /\ returned.value.details[2].status = "healthy"

\* C15: while periodic checking has been started and not stopped, the timer
\* stays armed and every interval that has elapsed since the start has had
\* its cycle, which called checkAllServices, also after a cycle whose sweep
\* was rejected.
C15_TimerKeepsFiring ==
    timer.wanted =>
        /\ timer.on
        /\ now <= timer.due
        /\ timer.due = timer.since + (Len(timer.cycles) + 1) * timer.intervalMs

\* the cycle after one whose sweep was rejected has swept the Directory, of
\* one entry, to the end
C15_Witness ==
    /\ timer.wanted
    /\ Len(timer.cycles) >= 2
    /\ timer.cycles[1] = "failed"
    /\ timer.cycles[2] = "sweep"
    /\ returned.op = "health check cycle"
    /\ Len(returned.arg.keys) = 1

\* the request of the registerService call that has returned
requestOf(r) == CHOOSE req \in Requests : req.name = r.arg.name /\ req.type = r.arg.type

\* the request has an empty name, derives an empty identifier or has a base
\* address that is not a valid absolute URL
invalidRequest(req) ==
    \/ ~stringNotEmpty(req.name)
    \/ ~stringNotEmpty(generateServiceId(req.name))
    \/ ~req.baseUrl.valid

\* C16 as stated: registerService with an empty name, a name that derives an
\* empty identifier or an invalid base address fails with a VALIDATION error.
C16_InvalidAlwaysFails ==
    (returned.op = "registerService" /\ invalidRequest(requestOf(returned)))
        => returned.error = "VALIDATION_ERROR"

\* C16: registerService with an empty name, a name that derives an empty
\* identifier or an invalid base address, when no entry with the derived
\* identifier is in the Directory, fails with a VALIDATION error and has no
\* effect: no entry is stored, no health check is issued, no event is
\* emitted; and no entry in the Directory was ever made from such a request.
C16_InvalidRegistration ==
    [][/\ \A i \in 1..Len(services') :
             LET svc == heap'[services'[i].ref]
             IN  /\ svc.baseUrl.valid
                 /\ stringNotEmpty(svc.id)
                 /\ stringNotEmpty(svc.name)
       /\ (/\ returned = Nothing
           /\ returned'.op = "registerService"
           /\ invalidRequest(requestOf(returned'))
           /\ findById(services, returned'.sid) = 0)
          => /\ returned'.error = "VALIDATION_ERROR"
             /\ services' = services
             /\ heap' = heap
             /\ calls' = calls
             /\ log' = log
             /\ recentEvents' = recentEvents]_vars

\* a request with an invalid base address has been refused while another
\* service is registered and its event is in the history
C16_Witness ==
    /\ returned.op = "registerService"
    /\ returned.error = "VALIDATION_ERROR"
    /\ ~requestOf(returned).baseUrl.valid
    /\ Len(services) = 1
    /\ Len(log) = 1

\* C17: dispatchCommand returns the upstream body iff the proxied response
\* status is below 400; for a status of 400 or more it fails with
\* COMMAND_DISPATCH_FAILED carrying that status; NOT_FOUND,
\* SERVICE_UNAVAILABLE and GATEWAY_TIMEOUT of the proxy reach the caller
\* unchanged.
C17_DispatchCommand ==
    returned.op = "dispatchCommand" =>
        LET kind == returned.arg.kind
            code == returned.arg.code
            ref == findById(services, returned.sid)
        IN  /\ returned.error = "" <=> (kind = "response" /\ code < 400)
            /\ returned.error = "" =>
                  returned.value.body = [from |-> returned.sid, status |-> code]
            /\ (kind = "response" /\ code >= 400) =>
                  /\ returned.error = "COMMAND_DISPATCH_FAILED"
                  /\ returned.value.status = code
            /\ kind = "timeout" => returned.error = "GATEWAY_TIMEOUT"
            /\ kind = "" =>
                  /\ ref = 0 => returned.error = "NOT_FOUND"
                  /\ ref # 0 => /\ returned.error = "SERVICE_UNAVAILABLE"
                                /\ ~isAvailable(heap[ref])

\* the command's target answered 400
C17_Witness ==
    /\ returned.op = "dispatchCommand"
    /\ returned.arg.kind = "response"
    /\ returned.arg.code = 400
    /\ returned.error = "COMMAND_DISPATCH_FAILED"
    /\ returned.value.status = 400

\* C18: every stored entry's status is one of starting, healthy, degraded,
\* unhealthy (unknown and stopping are never written onto an entry), and
\* checkServiceHealth on an id that is not in the Directory returns an
\* unknown result without creating or changing any entry.
C18_StoredStatus ==
    [][/\ \A i \in 1..Len(services') :
             heap'[services'[i].ref].status \in {"starting", "healthy", "degraded", "unhealthy"}
       /\ (/\ returned = Nothing
           /\ returned'.op = "checkServiceHealth"
           /\ findById(services, returned'.sid) = 0
           /\ ~\E c \in BagToSet(calls) :
                 c.sid = returned'.sid /\ c.parent.op = "checkServiceHealth")
          => /\ returned'.value.status = "unknown"
             /\ returned'.error = ""
             /\ services' = services
             /\ heap' = heap
             /\ calls' = calls]_vars

\* a check of an id that is not in the Directory has returned, while the
\* Directory holds another entry, checked before
C18_Witness ==
    /\ returned.op = "checkServiceHealth"
    /\ returned.value.status = "unknown"
    /\ findById(services, returned.sid) = 0
    /\ Len(services) = 1
    /\ heap[services[1].ref].status = "degraded"

\* the lastSeenAt of the entry stored under id
lastSeenAt(m, h, id) == h[findById(m, id)].lastSeenAt

\* C19: for every identifier, the lastSeenAt observed in the Directory never
\* decreases over a step of any operation while the entry stays registered.
C19_LastSeenMonotonic ==
    [][\A id \in IdsOf(limits) :
          (findById(services, id) # 0 /\ findById(services', id) # 0)
              => lastSeenAt(services', heap', id) >= lastSeenAt(services, heap, id)]_vars

\* time has passed since the entry was registered and it has been seen
\* since
C19_Witness ==
    /\ Len(services) = 1
    /\ heap[services[1].ref].registeredAt = 0
    /\ heap[services[1].ref].lastSeenAt > 0
    /\ returned.op \in {"registerService", "heartbeat", "checkServiceHealth", "proxy"}

\* C20: when checkServiceHealth returns for an id that was in the Directory,
\* the stored entry's status is the returned result's status, its cached
\* result is the returned result and its lastSeenAt is the time of the
\* return: nothing of the previous status and cached result is left.
C20_CheckOverwrites ==
    (returned.op = "checkServiceHealth" /\ returned.arg.kind # "absent") =>
        LET ref == findById(services, returned.sid)
        IN  /\ ref # 0
            /\ heap[ref].status = returned.value.status
            /\ heap[ref].lastHealthCheck = returned.value
            /\ heap[ref].lastSeenAt = now
            /\ returned.value.timestamp = now

\* a check that timed out has replaced the result of the check made when
\* the entry was registered
C20_Witness ==
    /\ returned.op = "checkServiceHealth"
    /\ returned.arg.kind = "timeout"
    /\ Len(services) = 1
    /\ heap[services[1].ref].registeredAt = 0
    /\ heap[services[1].ref].lastHealthCheck.timestamp = 5000
    /\ heap[services[1].ref].lastHealthCheck.details.error = "This operation was aborted"

\* the two summaries report the same counts and the same overall status
sameCounts(a, b) == a.services = b.services /\ a.status = b.status

\* the Directory is as the sweep that has returned left it: its keys are the
\* ones the sweep started with and every entry's cached result is the one
\* the sweep recorded for it
asSwept ==
    /\ [i \in 1..Len(services) |-> services[i].id] = returned.arg.keys
    /\ \A i \in 1..Len(services) :
          LET last == heap[services[i].ref].lastHealthCheck
              detail == returned.value.details[i]
          IN  /\ last.status = detail.status
              /\ last.timestamp = detail.lastCheck
              /\ last.responseTimeMs = detail.responseTimeMs
              /\ last.details.error = detail.error

C22_CachedReadsOnly ==
    [][(returned = Nothing /\ returned'.op \in {"getAggregatedHealth", "getServiceHealth"})
          => /\ calls' = calls
             /\ services' = services
             /\ heap' = heap
             /\ returned'.op = "getServiceHealth" =>
                   LET ref == findById(services, returned'.sid)
                   IN  IF ref = 0 \/ heap[IF ref = 0 THEN 1 ELSE ref].status = "starting"
                       THEN returned'.value = NoResult
                       ELSE /\ returned'.value = heap[ref].lastHealthCheck
                            /\ returned'.value # NoResult]_vars

\* the cached result of an entry whose first check is still in flight has
\* been asked for
C22_Witness ==
    /\ returned.op = "getServiceHealth"
    /\ returned.value = NoResult
    /\ findById(services, returned.sid) # 0
    /\ calls # EmptyBag

\* the entries of the Directory, in order, as objects
entriesOf(m, h) == [i \in 1..Len(m) |-> h[m[i].ref]]

\* C23: a proxy call that receives an upstream response refreshes the target
\* entry's lastSeenAt and leaves the status and cached health result the
\* entry has as they were; a proxy call that fails leaves every Directory
\* entry as it was.
C23_ProxyTouchesOnly ==
    [][(returned = Nothing /\ returned'.op = "proxy") =>
          IF returned'.error = ""
          THEN LET before == findById(services, returned'.sid)
                   after == findById(services', returned'.sid)
               IN  before # 0 =>
                       /\ after # 0
                       /\ heap'[after].lastSeenAt = now
                       /\ heap'[after].status = heap[before].status
                       /\ heap'[after].lastHealthCheck = heap[before].lastHealthCheck
          ELSE entriesOf(services', heap') = entriesOf(services, heap)]_vars

\* the characters [a-z0-9] of the alphabet
alnum == {"a", "1"}

\* the name read once, left to right, lower-casing: a character of [a-z0-9]
\* goes to the output, after one dash when characters outside [a-z0-9] were
\* passed since the last one that went out
RECURSIVE dashed(_, _, _)
dashed(name, out, gap) ==
    IF name = <<>> THEN out
    ELSE LET ch == IF Head(name) = "A" THEN "a" ELSE Head(name)
         IN  IF ch \in alnum
             THEN dashed(Tail(name),
                         out \o (IF gap /\ out # <<>> THEN <<"-">> ELSE <<>>) \o <<ch>>,
                         FALSE)
             ELSE dashed(Tail(name), out, TRUE)

\* C24: the derived identifier is the name lower-cased with each maximal run
\* of characters outside [a-z0-9] replaced by one dash and the dashes at the
\* start and at the end removed: it contains only [a-z0-9-], does not start
\* or end with a dash, has no two dashes in a row, and deriving again from
\* it gives it again.
C24_DerivedIdentifier ==
    returned.op = "generateServiceId" =>
        LET id == returned.sid
        IN  /\ id = dashed(returned.arg.name, <<>>, FALSE)
            /\ \A i \in 1..Len(id) : id[i] \in alnum \cup {"-"}
            /\ id # <<>> => id[1] # "-" /\ id[Len(id)] # "-"
            /\ \A i \in 1..(Len(id) - 1) : ~(id[i] = "-" /\ id[i + 1] = "-")
            /\ generateServiceId(id) = id

\* a name with a run of two characters outside [a-z0-9] between two of
\* [a-z0-9], the first in upper case
C24_Witness ==
    /\ returned.op = "generateServiceId"
    /\ returned.arg.name = <<"A", " ", "!", "1">>
    /\ returned.sid = <<"a", "-", "1">>

\* the step emits exactly one event, of the given type, for the given id
emitsOne(type, id) ==
    /\ Len(log') = Len(log) + 1
    /\ SubSeq(log', 1, Len(log)) = log
    /\ log'[Len(log')].type = type
    /\ log'[Len(log')].serviceId = id
    /\ recentEvents'[1] = log'[Len(log')]

\* the initial checks in flight for an identifier; the registerService call
\* that returns in the step created its entry when its initial check ends
initialChecks(b, id) ==
    BagCardinality([c \in {d \in BagToSet(b) : d.parent.op = "registerService" /\ d.sid = id}
                      |-> b[c]])

createdEntry ==
    initialChecks(calls', returned'.sid) < initialChecks(calls, returned'.sid)

\* C25: a registerService call that creates a new entry emits exactly one
\* service-registered event carrying the new identifier, whatever its
\* initial health check gives; a successful deregisterService emits exactly
\* one service-deregistered event; a re-registration of an existing
\* identifier, a failing call and any other step emit no event.
C25_RegistryEvents ==
    [][IF returned = Nothing /\ returned'.op = "registerService" /\ createdEntry
       THEN returned'.error = "" /\ emitsOne("service.registered", returned'.sid)
       ELSE IF returned = Nothing /\ returned'.op = "deregisterService" /\ returned'.error = ""
       THEN emitsOne("service.deregistered", returned'.sid)
       ELSE log' = log /\ recentEvents' = recentEvents]_vars

\* a registration whose initial check timed out has returned and its event
\* is the newest of the history
C25_Witness ==
    /\ returned.op = "registerService"
    /\ returned.error = ""
    /\ returned.value.status = "unhealthy"
    /\ now = 5000
    /\ recentEvents # <<>>
    /\ recentEvents[1].type = "service.registered"
    /\ recentEvents[1].serviceId = returned.sid
    /\ recentEvents[1].timestamp = 5000

\* the active checks in flight for an identifier
checksOf(b, id) ==
    BagCardinality([c \in {d \in BagToSet(b) : d.kind = "health" /\ d.sid = id} |-> b[c]])

\* the step emits an event of the given type for the given id, and the event
\* is in the history after it
announces(type, id) ==
    \E i \in (Len(log) + 1)..Len(log') :
        /\ log'[i].type = type
        /\ log'[i].serviceId = id
        /\ \E j \in 1..Len(recentEvents') : recentEvents'[j] = log'[i]

\* C26: whenever an active check changes the stored status of a service, a
\* health-changed event for that service is emitted and is in the
\* recent-event history.
C26_HealthChangeAnnounced ==
    [][\A id \in IdsOf(limits) :
          (/\ checksOf(calls', id) < checksOf(calls, id)
           /\ findById(services, id) # 0
           /\ findById(services', id) # 0
           /\ statusAt(services', heap', id) # statusAt(services, heap, id))
              => announces("service.health_changed", id)]_vars

\* the commands in flight towards an identifier
commandsTo(b, id) == inFlight(b, proxyCalls(b, id, {"dispatchCommand"}))

\* C27: every dispatchCommand announces its outcome: a command-dispatched
\* event in the step that sends the command, then a command-completed event
\* in the step that returns the upstream's answer below 400, or a
\* command-failed event in the step in which the dispatch of a command that
\* was sent fails.
C27_CommandAnnounced ==
    [][\A id \in IdsOf(limits) :
          /\ commandsTo(calls', id) > commandsTo(calls, id)
                => announces("command.dispatched", id)
          /\ (/\ returned = Nothing
              /\ returned'.op = "dispatchCommand"
              /\ returned'.sid = id
              /\ returned'.arg.kind # "")
                => IF returned'.error = ""
                   THEN announces("command.completed", id)
                   ELSE announces("command.failed", id)]_vars

\* how many times the emit that has returned invoked h in the given loop
timesInvoked(r, h, stage) ==
    Cardinality({i \in 1..Len(r.invoked) :
                    r.invoked[i].handler = h /\ r.invoked[i].stage = stage})

\* no handler is twice among the entries
asSet(entries) ==
    \A i, j \in 1..Len(entries) :
        (i # j /\ entries[i] # Gone) => entries[i] # entries[j]

\* nobody subscribed or unsubscribed while the emit that has returned was
\* under way
quietEmit ==
    /\ returned.value.removed = {}
    /\ returned.value.typeOrder = handlers[returned.value.event.type]
    /\ returned.value.allOrder = allHandlers

\* C28: the handler registries are sets: no handler is twice in one of them
\* however often it was subscribed, and one emit of an event of type T,
\* during which no subscription changes, invokes a handler once as a
\* handler of T if it is subscribed to T (not at all if it is not) and once
\* as an all-events handler if it is one (not at all if it is not).
C28_HandlerSets ==
    /\ \A t \in EventType : asSet(handlers[t])
    /\ asSet(allHandlers)
    /\ (returned.op = "emit" /\ quietEmit) =>
          \A h \in Handlers :
              /\ timesInvoked(returned.value, h, "type") =
                    IF h \in Range(handlers[returned.value.event.type]) THEN 1 ELSE 0
              /\ timesInvoked(returned.value, h, "all") =
                    IF h \in Range(allHandlers) THEN 1 ELSE 0

\* h1 is subscribed to the type of the event and to all events, h2 to all
\* events only: the emit invoked h1 twice and h2 once
C28_Witness ==
    /\ returned.op = "emit"
    /\ quietEmit
    /\ returned.value.event.type = "service.registered"
    /\ handlers["service.registered"] = <<"h1">>
    /\ allHandlers = <<"h2", "h1">>
    /\ Len(returned.value.invoked) = 3

\* C29: for every limit that is not negative, getRecentEvents(limit) returns
\* the first min(limit, n) of the n events of the stored history, the newest
\* first, and leaves the history and the subscriptions as they were, so
\* that a second call with no emit in between returns the same list.
C29_RecentEventsRead ==
    [][(returned = Nothing /\ returned'.op = "getRecentEvents") =>
          LET limit == returned'.arg.limit
              n == Len(recentEvents)
              list == returned'.value
          IN  /\ limit >= 0
              /\ Len(list) = IF limit < n THEN limit ELSE n
              /\ \A i \in 1..Len(list) :
                    /\ list[i] = recentEvents[i]
                    /\ list[i] = log[Len(log) + 1 - i]
              /\ returned'.error = ""
              /\ recentEvents' = recentEvents
              /\ log' = log
              /\ handlers' = handlers
              /\ allHandlers' = allHandlers]_vars

\* the history is full and half of it was asked for
C29_Witness ==
    /\ returned.op = "getRecentEvents"
    /\ returned.arg.limit = 50
    /\ Len(recentEvents) = 100
    /\ Len(log) = 150
    /\ Len(returned.value) = 50
    /\ returned.value[1] = log[150]
    /\ returned.value[50] = log[101]

\* C30: the entry a registerService call creates is in status starting; the
\* status stored under an identifier that stays registered changes only in
\* a step that ends an active check of it, and never to starting: heartbeat,
\* proxy, re-registration and aggregation leave every status as it was.
C30_StatusLifecycle ==
    [][\A id \in IdsOf(limits) :
          LET before == statusAt(services, heap, id)
              after == statusAt(services', heap', id)
          IN  /\ initialChecks(calls', id) > initialChecks(calls, id) => after = "starting"
              /\ (before # "absent" /\ after # "absent" /\ after # before) =>
                    /\ checksOf(calls', id) < checksOf(calls, id)
                    /\ after # "starting"]_vars

\* C31: deregisterService and getService fail with NOT_FOUND exactly for an
\* identifier the Directory does not hold, and the failing call has no
\* effect: the Directory and its objects are as before and no event is
\* emitted.
C31_NotFound ==
    [][(returned = Nothing /\ returned'.op \in {"deregisterService", "getService"}) =>
          /\ returned'.error = "NOT_FOUND" <=> findById(services, returned'.sid) = 0
          /\ returned'.error \in {"", "NOT_FOUND"}
          /\ returned'.error = "NOT_FOUND" =>
                /\ services' = services
                /\ heap' = heap
                /\ calls' = calls
                /\ log' = log
                /\ recentEvents' = recentEvents]_vars

\* a deregistration of an identifier that is not registered has failed,
\* while another identifier is: its entry and the history are as they were
C31_Witness ==
    /\ returned.op = "deregisterService"
    /\ returned.error = "NOT_FOUND"
    /\ Len(services) = 1
    /\ services[1].id # returned.sid
    /\ Len(log) = 1
    /\ log[1].type = "service.registered"

\* the identifiers of the Directory, in its order
keysOf(m) == [i \in 1..Len(m) |-> m[i].id]

\* C32: heartbeat of a registered identifier sets that entry's lastSeenAt to
\* the time of the call and changes nothing else (its other fields, every
\* other entry and the order of the Directory are as before); heartbeat of
\* an unknown identifier raises no error and leaves the Directory as it was.
C32_Heartbeat ==
    [][(returned = Nothing /\ returned'.op = "heartbeat") =>
          /\ returned'.error = ""
          /\ keysOf(services') = keysOf(services)
          /\ calls' = calls
          /\ log' = log
          /\ \A i \in 1..Len(services) :
                LET old == heap[services[i].ref]
                    new == heap'[services'[i].ref]
                IN  IF services[i].id = returned'.sid
                    THEN /\ new.lastSeenAt = now
                         /\ [new EXCEPT !.lastSeenAt = old.lastSeenAt] = old
                    ELSE new = old]_vars

\* the heartbeat of a registered service, some time after its registration
\* and its check: the entry is seen now, and is degraded as the check left it
C32_Witness ==
    /\ returned.op = "heartbeat"
    /\ returned.error = ""
    /\ Len(services) = 1
    /\ services[1].id = returned.sid
    /\ now > 0
    /\ heap[services[1].ref].lastSeenAt = now
    /\ heap[services[1].ref].registeredAt = 0
    /\ heap[services[1].ref].status = "degraded"
    /\ heap[services[1].ref].lastHealthCheck.timestamp = 0

\* the service-registered events emitted for an identifier
registrations(l, id) ==
    {i \in 1..Len(l) : l[i].type = "service.registered" /\ l[i].serviceId = id}

\* what an entry got from the call that created it
asCreated(svc) ==
    [svc EXCEPT !.status = "starting", !.lastHealthCheck = NoResult,
                !.lastSeenAt = svc.registeredAt]

\* C33: however registerService calls whose names derive the same
\* identifier interleave, at most one service-registered event is emitted
\* for the identifier, and the entry stored under it keeps the fields and
\* the registeredAt it got from the call that created it: no call replaces
\* the stored entry.
C33_OneRegistration ==
    [][\A id \in IdsOf(limits) :
          /\ Cardinality(registrations(log', id)) <= 1
          /\ (findById(services, id) # 0 /\ findById(services', id) # 0) =>
                asCreated(heap'[findById(services', id)])
                    = asCreated(heap[findById(services, id)])]_vars

\* the service-deregistered events emitted for an identifier
deregistrations(l, id) ==
    {i \in 1..Len(l) : l[i].type = "service.deregistered" /\ l[i].serviceId = id}

\* C34: in the events emitted so far, for every identifier, the
\* service-registered and service-deregistered events alternate, starting
\* with service-registered: at every moment the identifier has as many
\* registered events as deregistered ones, or one more.
C34_EventsAlternate ==
    \A id \in IdsOf(limits) :
        Cardinality(registrations(log, id)) - Cardinality(deregistrations(log, id)) \in {0, 1}

C36_CountsPartition ==
    (returned.op \in {"checkAllServices", "getAggregatedHealth"}) =>
        LET n == returned.value.services
        IN  /\ n.healthy + n.unhealthy + n.degraded + n.unknown = n.total
            /\ returned.op = "checkAllServices" => n.total = Len(returned.arg.keys)
            /\ returned.op = "getAggregatedHealth" =>
                  /\ n.total = Len(services)
                  /\ n.unknown = countStatus(services, heap, "starting")

\* two services, one checked healthy and one whose first check is pending:
\* the summary counts one healthy and one unknown
C36_Witness ==
    /\ returned.op = "getAggregatedHealth"
    /\ returned.value.services.total = 2
    /\ returned.value.services.healthy = 1
    /\ returned.value.services.unknown = 1
    /\ countStatus(services, heap, "starting") = 1

\* C37: at most one periodic timer is running: no interval runs on without
\* its handle, whatever sequence of startHealthChecks and stopHealthChecks
\* was called, and every cycle of the timer has an elapsed interval of its
\* own, so that an interval that elapses triggers at most one sweep.
C37_OneTimer ==
    /\ timer.orphans = 0
    /\ timer.since + Len(timer.cycles) * timer.intervalMs <= now

\* startHealthChecks was called, with another interval, while a timer was
\* running, and the new timer has had its first cycle
C37_Witness ==
    /\ timer.on
    /\ timer.replaced
    /\ timer.since > 0
    /\ timer.intervalMs = 2 * HEALTH_CHECK_INTERVAL_MS
    /\ Len(timer.cycles) = 1
    /\ now = timer.since + timer.intervalMs

\* the sweeps the timer started that are under way
timerSweeps(sw) == {k \in SweepIds : sw[k].active /\ sw[k].by = "timer"}

\* C38: from the return of stopHealthChecks until startHealthChecks is
\* called again no periodic sweep starts; stopHealthChecks without a timer
\* running changes nothing; and a periodic sweep under way ends only by
\* running to its end, also after stopHealthChecks.
C38_StoppedStaysStopped ==
    [][/\ (~timer.wanted /\ ~timer'.wanted) =>
             /\ timer'.cycles = timer.cycles
             /\ timerSweeps(sweeps') \subseteq timerSweeps(sweeps)
       /\ ~timer.on => stopHealthChecks(timer) = timer
       /\ \A k \in timerSweeps(sweeps) \ timerSweeps(sweeps') :
             returned'.op = "health check cycle"]_vars

\* a periodic sweep that was under way when stopHealthChecks was called has
\* run to its end and written the result of its check to the Directory
C38_Witness ==
    /\ ~timer.on
    /\ ~timer.wanted
    /\ returned.op = "health check cycle"
    /\ Len(returned.arg.keys) = 1
    /\ returned.arg.probes # <<"absent">>
    /\ Len(services) = 1
    /\ now > 0
    /\ heap[services[1].ref].lastHealthCheck.timestamp = now
    /\ timerSweeps(sweeps) = {}

\* statuses that end a workflow
terminalStatuses == {"completed", "failed", "cancelled"}

\* C39: whatever sequence of start, completeCurrentStep, failCurrentStep,
\* pause, resume and cancel is called on a workflow, a status of completed,
\* failed or cancelled is never followed by created, running or paused;
\* start takes effect only on a created workflow (and throws otherwise),
\* pause changes only a running workflow, resume changes only a paused one;
\* and currentStepIndex stays within 0 .. steps.length - 1.
C39_WorkflowLifecycle ==
    [][/\ (workflow.made /\ workflow.status \in terminalStatuses)
            => workflow'.status \in terminalStatuses
       /\ (returned = Nothing /\ returned'.op = "start")
            => IF workflow.status = "created"
               THEN returned'.error = "" /\ workflow'.status = "running"
               ELSE returned'.error # "" /\ workflow' = workflow
       /\ (returned = Nothing /\ returned'.op = "pause")
            => IF workflow.status = "running"
               THEN workflow' = [workflow EXCEPT !.status = "paused"]
               ELSE workflow' = workflow
       /\ (returned = Nothing /\ returned'.op = "resume")
            => IF workflow.status = "paused"
               THEN workflow' = [workflow EXCEPT !.status = "running"]
               ELSE workflow' = workflow
       /\ workflow'.made => /\ workflow'.status \in {"created", "running", "paused", "completed", "failed", "cancelled"}
                            /\ workflow'.currentStepIndex \in 0..(Len(workflow'.steps) - 1)]_vars

\* a workflow of MaxSteps steps that was started, completed its last step at a
\* later time and was then asked to start again
C39_Witness ==
    /\ workflow.made
    /\ workflow.status = "completed"
    /\ Len(workflow.steps) = MaxSteps
    /\ workflow.currentStepIndex = MaxSteps - 1
    /\ \A i \in DOMAIN workflow.steps : workflow.steps[i].status = "completed"
    /\ workflow.startedAt # NoDate
    /\ workflow.completedAt # NoDate
    /\ workflow.completedAt[1] > workflow.startedAt[1]
    /\ returned.op = "start"
    /\ returned.error # ""

====
